---- MODULE Spec2Model ----
(***************************************************************************)
(* State-machine model of the AntiProxy request pipeline:                  *)
(*   - proxy/upstream/client.rs : UpstreamClient (endpoint failover and    *)
(*     promotion), specification SpecUpstream;                             *)
(*   - proxy/middleware/auth.rs : auth_middleware (credential resolver),   *)
(*     specification SpecAuth;                                             *)
(*   - proxy/middleware/monitor.rs : monitor_middleware (usage metering,   *)
(*     request log, SSE relay), specification SpecMonitor;                 *)
(*   - proxy/middleware/web_auth.rs : web_auth_middleware (session gate),  *)
(*     specification SpecWebAuth.                                          *)
(* Indices are 0-based as in the source; At(s, i) reads a Vec element.     *)
(***************************************************************************)
EXTENDS Integers, Sequences, FiniteSets, TLC

(* ------------------------------------------------------------------ *)
(* Bounds                                                              *)
(* ------------------------------------------------------------------ *)

\* Number of upstream calls that may be in flight at the same time.
NumCalls == 2

Calls == 1..NumCalls

(* ------------------------------------------------------------------ *)
(* Vec helpers (0-based)                                               *)
(* ------------------------------------------------------------------ *)

At(s, i) == s[i + 1]

\* Vec::remove(i): drops the element at index i, shifting the rest left.
Remove(s, i) == [j \in 1..(Len(s) - 1) |-> IF j <= i THEN s[j] ELSE s[j + 1]]

\* Vec::insert(i, e): inserts e at index i, shifting the rest right.
Insert(s, i, e) ==
    [j \in 1..(Len(s) + 1) |-> IF j <= i THEN s[j] ELSE IF j = i + 1 THEN e ELSE s[j - 1]]

(* ------------------------------------------------------------------ *)
(* UpstreamClient: constants and pure functions                        *)
(* ------------------------------------------------------------------ *)

V1_INTERNAL_BASE_URL_DAILY == "https://daily-cloudcode-pa.googleapis.com/v1internal"
V1_INTERNAL_BASE_URL_PROD == "https://cloudcode-pa.googleapis.com/v1internal"

\* UpstreamClient::new: the default endpoint priority.
InitialEndpoints == <<V1_INTERNAL_BASE_URL_DAILY, V1_INTERNAL_BASE_URL_PROD>>

\* The two public operations that iterate the endpoint list.
Operations == {"call_v1_internal", "fetch_available_models"}

\* Whether HeaderValue::from_str accepts "Bearer {access_token}".
AccessTokens == {"header_ok", "header_invalid"}

\* HTTP statuses the upstream may answer with.
Statuses == {200, 204, 400, 401, 403, 404, 408, 429, 500, 503}

\* Outcome of one `.send().await`: Err(e) or Ok(resp) with its status.
TransportError == [ok |-> FALSE, status |-> 0]
HttpResponse(s) == [ok |-> TRUE, status |-> s]
NoResponse == [ok |-> FALSE, status |-> -1]
SendOutcomes == {TransportError} \cup {HttpResponse(s) : s \in Statuses}

is_success_below_500(status) == status >= 200 /\ status <= 499

\* StatusCode::is_success
is_success(status) == status >= 200 /\ status <= 299

\* StatusCode::is_server_error
is_server_error(status) == status >= 500 /\ status <= 599

should_try_next_endpoint_4xx(status) ==
    status >= 400

should_try_next_endpoint(status) ==
    \/ status = 429
    \/ status = 408
    \/ status = 404
    \/ is_server_error(status)

\* Error strings, kept as (kind, endpoint); the status text is not modelled.
NoError == [kind |-> "none", at |-> ""]
ErrorAt(kind, url) == [kind |-> kind, at |-> url]

\* Result<_, String> of a call.
NoResult == [set |-> FALSE, ok |-> FALSE, status |-> 0, from |-> "", err |-> NoError]
OkResult(status, url) == [set |-> TRUE, ok |-> TRUE, status |-> status, from |-> url, err |-> NoError]
ErrResult(e) == [set |-> TRUE, ok |-> FALSE, status |-> 0, from |-> "", err |-> e]

\* promote_endpoint as a function of the shared list (its net effect).
promote_endpoint(eps, successful_idx) ==
    IF successful_idx = 0
    THEN eps
    ELSE IF successful_idx < Len(eps)
         THEN Insert(Remove(eps, successful_idx), 0, At(eps, successful_idx))
         ELSE eps

(* ------------------------------------------------------------------ *)
(* State                                                               *)
(* ------------------------------------------------------------------ *)

VARIABLES
    endpoints,   \* self.endpoints: the shared Vec<String> behind the RwLock
    writer,      \* holder of the RwLock's write guard (0: none)
    pc,          \* per call: position in the operation
    op,          \* per call: which operation is running
    snapshot,    \* per call: the local clone `endpoints`
    idx,         \* per call: loop index
    last_err,    \* per call: last_err
    response,    \* per call: outcome of the attempt awaited last
    endpoint,    \* per call: the element removed inside promote_endpoint
    result,      \* per call: the value returned
    attempts,    \* per call (history): endpoints POSTed to, in order
    inflight,    \* per call (history): attempts sent and not yet completed
    interfered,  \* per call (history): another call promoted during this one
    security,    \* ProxySecurityConfig: effective auth mode and legacy api_key
    api_keys,    \* the dynamic credential store: records by id
    request,     \* the inbound request: method, path, credential headers
    extensions,  \* AuthenticatedKey values inserted into the request, in order
    lookup,      \* what find_by_key returned for this request
    auth_pc,     \* "idle", "received" or "responded"
    auth_result, \* "none", "next" (downstream handler ran) or "UNAUTHORIZED"
    monitor_enabled, \* state.monitor.is_enabled()
    mon_request,     \* the request at the monitor: uri, method, body, identity
    forwarded,       \* (history) the request body handed to next.run, if any yet
    downstream,      \* the response next.run answered
    delivered,       \* the Response returned to the caller
    usage_calls,     \* (history) invocations of record_usage for this request
    log_sink,        \* (history) records passed to monitor.log_request
    mon_pc,          \* "idle", "received" or "responded"
    stream_pos,      \* observing task: items taken from the body stream
    chunk,           \* observing task: the item being forwarded
    obs_pc,          \* observing task: "none", "next", "send" or "done"
    channel,         \* items sent on tx and not yet received from rx
    rx_open,         \* the receiving end of the channel is alive
    caller_got,      \* (history) items the caller has read from the body
    last_few_bytes,  \* observing task: the tail window
    log,             \* observing task: the ProxyRequestLog moved into it
    sessions,        \* the session store: per token, the session and its expiry
    now,             \* the clock the session store reads
    web_request,     \* the request at the session gate: path and Cookie header
    web_pc,          \* "idle", "received", "validate", "refresh" or "responded"
    session_token,   \* the token extracted from the cookie, if any
    validate_calls,  \* (history) results of validate_session for this request
    refresh_calls,   \* (history) tokens passed to refresh_session by this request
    web_response     \* what the gate returned: handler response, 401 or redirect

upVars == <<endpoints, writer, pc, op, snapshot, idx, last_err, response,
            endpoint, result, attempts, inflight, interfered>>

authVars == <<security, api_keys, request, extensions, lookup, auth_pc, auth_result>>

monVars == <<monitor_enabled, mon_request, forwarded, downstream, delivered,
             usage_calls, log_sink, mon_pc, stream_pos, chunk, obs_pc, channel,
             rx_open, caller_got, last_few_bytes, log>>

webVars == <<sessions, now, web_request, web_pc, session_token, validate_calls,
             refresh_calls, web_response>>

vars == <<upVars, authVars, monVars, webVars>>

(* ------------------------------------------------------------------ *)
(* UpstreamClient: per-call helpers                                    *)
(* ------------------------------------------------------------------ *)

base_url_shared(c) ==
    IF idx[c] < Len(endpoints) THEN At(endpoints, idx[c]) ELSE ""

\* `for (idx, base_url) in endpoints.iter().enumerate()` over the local clone.
base_url(c) == At(snapshot[c], idx[c])

\* endpoint_count = endpoints.len() of the local clone.
endpoint_count(c) == Len(snapshot[c])

\* has_next = idx + 1 < endpoint_count
has_next(c) == idx[c] + 1 < endpoint_count(c)

NextIndex_same(i) == i

\* The enumerate() step of the for loop.
NextIndex(i) == i + 1

Reinsert_back(eps, e) == Insert(eps, Len(eps), e)

Reinsert_over_front(eps, e) == <<e>> \o Tail(eps)

\* endpoints.insert(0, endpoint.clone())
Reinsert(eps, e) == Insert(eps, 0, e)

FinalHttp_synthetic(o, status, url) ==
    ErrResult(ErrorAt("Upstream error", url))

\* What a non-2xx response that is not retried becomes:
\* call_v1_internal returns Ok(resp), fetch_available_models an Err string.
FinalHttp(o, status, url) ==
    IF o = "call_v1_internal"
    THEN OkResult(status, url)
    ELSE ErrResult(ErrorAt("Upstream error", url))

\* Calls that hold a snapshot and have not returned yet.
Active(d) == pc[d] \notin {"idle", "done"}

\* `return ...`: the call ends with value res.
Return(c, res) ==
    /\ pc' = [pc EXCEPT ![c] = "done"]
    /\ result' = [result EXCEPT ![c] = res]

\* After a 2xx response (and the promotion, if any): call_v1_internal
\* returns Ok(resp); fetch_available_models goes on to resp.json().await.
AfterSuccess(c) ==
    IF op[c] = "call_v1_internal"
    THEN Return(c, OkResult(response[c].status, base_url(c)))
    ELSE /\ pc' = [pc EXCEPT ![c] = "json"]
         /\ UNCHANGED result

(* ------------------------------------------------------------------ *)
(* UpstreamClient: actions                                             *)
(* ------------------------------------------------------------------ *)

\* Entry of call_v1_internal / fetch_available_models up to the loop head:
\* build the headers (early return on an invalid Authorization value), then
\* clone the shared list under the read lock.
Begin(c, o, token) ==
    /\ pc[c] \in {"idle", "done"}
    /\ op' = [op EXCEPT ![c] = o]
    /\ idx' = [idx EXCEPT ![c] = 0]
    /\ last_err' = [last_err EXCEPT ![c] = NoError]
    /\ response' = [response EXCEPT ![c] = NoResponse]
    /\ endpoint' = [endpoint EXCEPT ![c] = ""]
    /\ attempts' = [attempts EXCEPT ![c] = <<>>]
    /\ interfered' = [interfered EXCEPT ![c] = FALSE]
    /\ IF token = "header_invalid"
       THEN /\ snapshot' = [snapshot EXCEPT ![c] = <<>>]
            /\ Return(c, ErrResult(ErrorAt("invalid header value", "")))
       ELSE /\ writer = 0
            /\ snapshot' = [snapshot EXCEPT ![c] = endpoints]
            /\ IF Len(endpoints) > 0
               THEN /\ pc' = [pc EXCEPT ![c] = "send"]
                    /\ result' = [result EXCEPT ![c] = NoResult]
               ELSE Return(c, ErrResult(ErrorAt("All endpoints failed", "")))
    /\ UNCHANGED <<endpoints, writer, inflight>>
    /\ UNCHANGED <<authVars, monVars, webVars>>

\* self.http_client.post(&url)...send(): the attempt on base_url starts.
Send(c) ==
    /\ pc[c] = "send"
    /\ pc' = [pc EXCEPT ![c] = "await"]
    /\ attempts' = [attempts EXCEPT ![c] = Append(@, base_url(c))]
    /\ inflight' = [inflight EXCEPT ![c] = @ + 1]
    /\ UNCHANGED <<endpoints, writer, op, snapshot, idx, last_err, response,
                   endpoint, result, interfered>>
    /\ UNCHANGED <<authVars, monVars, webVars>>

\* .await completes: the upstream answers, or the transport fails.
Respond(c, r) ==
    /\ pc[c] = "await"
    /\ pc' = [pc EXCEPT ![c] = "match"]
    /\ response' = [response EXCEPT ![c] = r]
    /\ inflight' = [inflight EXCEPT ![c] = @ - 1]
    /\ UNCHANGED <<endpoints, writer, op, snapshot, idx, last_err, endpoint,
                   result, attempts, interfered>>
    /\ UNCHANGED <<authVars, monVars, webVars>>

\* `continue`: record the error and move to the next element of the clone;
\* when the clone is exhausted the loop ends and last_err is returned.
Continue(c, e) ==
    /\ last_err' = [last_err EXCEPT ![c] = e]
    /\ idx' = [idx EXCEPT ![c] = NextIndex(@)]
    /\ IF NextIndex(idx[c]) < endpoint_count(c)
       THEN /\ pc' = [pc EXCEPT ![c] = "send"]
            /\ UNCHANGED result
       ELSE Return(c, ErrResult(e))

\* `match response { ... }` of the loop body.
Match(c) ==
    /\ pc[c] = "match"
    /\ LET r == response[c]
           url == base_url(c)
       IN IF r.ok
          THEN IF is_success(r.status)
               THEN /\ UNCHANGED <<idx, last_err>>
                    /\ IF idx[c] > 0
                       THEN /\ pc' = [pc EXCEPT ![c] = "promote"]
                            /\ UNCHANGED result
                       ELSE AfterSuccess(c)
               ELSE IF has_next(c) /\ should_try_next_endpoint(r.status)
                    THEN Continue(c, ErrorAt("returned", url))
                    ELSE /\ UNCHANGED <<idx, last_err>>
                         /\ Return(c, FinalHttp(op[c], r.status, url))
          ELSE IF ~has_next(c)
               THEN /\ last_err' = [last_err EXCEPT ![c] = ErrorAt("request failed", url)]
                    /\ UNCHANGED idx
                    /\ Return(c, ErrResult(ErrorAt("request failed", url)))
               ELSE Continue(c, ErrorAt("request failed", url))
    /\ UNCHANGED <<endpoints, writer, op, snapshot, response, endpoint,
                   attempts, inflight, interfered>>
    /\ UNCHANGED <<authVars, monVars, webVars>>

\* promote_endpoint, first half: early return for index 0; otherwise take
\* the write lock and, if the index is in range, remove the element there.
PromoteRemove(c) ==
    /\ pc[c] = "promote"
    /\ IF idx[c] = 0
       THEN /\ AfterSuccess(c)
            /\ UNCHANGED <<endpoints, writer, endpoint, interfered>>
       ELSE /\ writer = 0
            /\ IF idx[c] < Len(endpoints)
               THEN /\ writer' = c
                    /\ endpoint' = [endpoint EXCEPT ![c] = At(endpoints, idx[c])]
                    /\ endpoints' = Remove(endpoints, idx[c])
                    /\ pc' = [pc EXCEPT ![c] = "insert"]
                    /\ interfered' = [d \in Calls |->
                                        IF d # c /\ Active(d) THEN TRUE ELSE interfered[d]]
                    /\ UNCHANGED result
               ELSE /\ AfterSuccess(c)
                    /\ UNCHANGED <<endpoints, writer, endpoint, interfered>>
    /\ UNCHANGED <<op, snapshot, idx, last_err, response, attempts, inflight>>
    /\ UNCHANGED <<authVars, monVars, webVars>>

\* promote_endpoint, second half: reinsert at the front, drop the write
\* guard, and return to the caller.
PromoteInsert(c) ==
    /\ pc[c] = "insert"
    /\ endpoints' = Reinsert(endpoints, endpoint[c])
    /\ writer' = 0
    /\ AfterSuccess(c)
    /\ UNCHANGED <<op, snapshot, idx, last_err, response, endpoint, attempts,
                   inflight, interfered>>
    /\ UNCHANGED <<authVars, monVars, webVars>>

\* fetch_available_models: resp.json().await either parses or fails.
JsonParse(c, parsed) ==
    /\ pc[c] = "json"
    /\ Return(c, IF parsed
                 THEN OkResult(response[c].status, base_url(c))
                 ELSE ErrResult(ErrorAt("Parse json failed", base_url(c))))
    /\ UNCHANGED <<endpoints, writer, op, snapshot, idx, last_err, response,
                   endpoint, attempts, inflight, interfered>>
    /\ UNCHANGED <<authVars, monVars, webVars>>

NextUpstream ==
    \E c \in Calls :
        \/ \E o \in Operations, token \in AccessTokens : Begin(c, o, token)
        \/ Send(c)
        \/ \E r \in SendOutcomes : Respond(c, r)
        \/ Match(c)
        \/ PromoteRemove(c)
        \/ PromoteInsert(c)
        \/ \E parsed \in BOOLEAN : JsonParse(c, parsed)

(* ------------------------------------------------------------------ *)
(* auth_middleware: data                                               *)
(* ------------------------------------------------------------------ *)

\* Strings are token sequences: "/" and "." are tokens of a path, and
\* "Bearer " is a token of a header value. The empty string is <<>>.
\* Option<T>: None is <<>>, Some(x) is <<x>>.

StartsWith(str, prefix) ==
    /\ Len(prefix) <= Len(str)
    /\ \A i \in 1..Len(prefix) : str[i] = prefix[i]

Methods == {"POST", "OPTIONS"}

Paths ==
    { <<"/">>,
      <<"/", "index", ".", "html">>,
      <<"/", "favicon", ".", "ico">>,
      <<"/", "assets", "/", "font">>,
      <<"/", "logo", ".", "svg">>,
      <<"/", "oauth-callback">>,
      <<"/", "api", "/", "oauth", "/", "callback">>,
      <<"/", "api", "/", "keys">>,
      <<"/", "healthz">>,
      <<"/", "v1", "/", "messages">>,
      <<"/", "v1", "/", "event_logging">>,
      <<"/", "v1", "/", "files", "/", "a", ".", "png">> }

\* Credential values a client may present.
Secrets == { <<"sk-dyn-1">>, <<"sk-dyn-2">>, <<"sk-legacy">>, <<"sk-unknown">>, <<>> }

\* A header: absent, present but not visible ASCII (to_str fails), or text.
NoHeader == [present |-> FALSE, ascii |-> FALSE, text |-> <<>>]
OpaqueHeader == [present |-> TRUE, ascii |-> FALSE, text |-> <<>>]
TextHeader(t) == [present |-> TRUE, ascii |-> TRUE, text |-> t]

AuthorizationValues ==
    {NoHeader, OpaqueHeader}
        \cup {TextHeader(k) : k \in Secrets}
        \cup {TextHeader(<<"Bearer ">> \o k) : k \in {<<"sk-dyn-1">>, <<"sk-legacy">>, <<>>}}

ApiKeyHeaderValues ==
    {NoHeader} \cup {TextHeader(k) : k \in {<<"sk-dyn-1">>, <<"sk-dyn-2">>, <<"sk-legacy">>}}

Requests ==
    [method : Methods, path : Paths,
     authorization : AuthorizationValues, x_api_key : ApiKeyHeaderValues]

NoRequest ==
    [method |-> "POST", path |-> <<"/">>, authorization |-> NoHeader, x_api_key |-> NoHeader]

\* security.effective_auth_mode()
AuthModes == {"Off", "AllExceptHealth", "Enforced"}

\* security.api_key: the legacy static secret ("" when none is configured).
LegacyKeys == { <<>>, <<"sk-legacy">>, <<"sk-dyn-1">> }

\* Records of the dynamic store; secrets are unique.
RecordIds == {"key-1", "key-2"}

InitialApiKeys ==
    [id \in RecordIds |->
        IF id = "key-1"
        THEN [id |-> "key-1", name |-> "first", key |-> <<"sk-dyn-1">>, enabled |-> TRUE]
        ELSE [id |-> "key-2", name |-> "second", key |-> <<"sk-dyn-2">>, enabled |-> FALSE]]

\* AuthenticatedKey { key, key_id, key_name }
AuthenticatedKey(key, key_id, key_name) ==
    [key |-> key, key_id |-> key_id, key_name |-> key_name]

(* ------------------------------------------------------------------ *)
(* auth_middleware: pure functions                                     *)
(* ------------------------------------------------------------------ *)

\* path.rsplit('.').next(): what follows the last '.', or the whole path.
rsplit_dot_next(path) ==
    LET dots == {i \in 1..Len(path) : path[i] = "."}
    IN IF dots = {}
       THEN path
       ELSE SubSeq(path, (CHOOSE i \in dots : \A j \in dots : j <= i) + 1, Len(path))

is_static_asset_no_extension(path) ==
    \/ path = <<"/">>
    \/ path = <<"/", "index", ".", "html">>
    \/ path = <<"/", "favicon", ".", "ico">>
    \/ StartsWith(path, <<"/", "assets", "/">>)

is_static_asset(path) ==
    IF path = <<"/">> \/ path = <<"/", "index", ".", "html">>
          \/ path = <<"/", "favicon", ".", "ico">>
    THEN TRUE
    ELSE IF StartsWith(path, <<"/", "assets", "/">>)
         THEN TRUE
         ELSE rsplit_dot_next(path) \in
                 { <<"css">>, <<"js">>, <<"png">>, <<"svg">>, <<"jpg">>, <<"jpeg">>,
                   <<"webp">>, <<"ico">> }

\* HeaderValue::to_str().ok()
to_str(h) == IF h.present /\ h.ascii THEN <<h.text>> ELSE <<>>

\* str::strip_prefix("Bearer ")
strip_prefix_bearer(str) ==
    IF Len(str) > 0 /\ Head(str) = "Bearer " THEN <<Tail(str)>> ELSE <<>>

\* The candidate credential: Authorization (Bearer prefix stripped when
\* there is one), else x-api-key.
extract_api_key(req) ==
    LET a == to_str(req.authorization)
        from_authorization ==
            IF Len(a) = 0
            THEN <<>>
            ELSE IF Len(strip_prefix_bearer(a[1])) > 0
                 THEN strip_prefix_bearer(a[1])
                 ELSE <<a[1]>>
    IN IF Len(from_authorization) > 0
       THEN from_authorization
       ELSE to_str(req.x_api_key)

\* crate::modules::api_keys::find_by_key: lookup by exact secret; Err when
\* the store cannot be queried.
NoRecord == [id |-> "", name |-> "", key |-> <<>>, enabled |-> FALSE]
find_by_key(db, key_str, db_ok) ==
    IF ~db_ok
    THEN [tag |-> "Err", rec |-> NoRecord]
    ELSE IF \E id \in DOMAIN db : db[id].key = key_str
         THEN [tag |-> "Some", rec |-> db[CHOOSE id \in DOMAIN db : db[id].key = key_str]]
         ELSE [tag |-> "None", rec |-> NoRecord]

legacy_matches_never(key_str, sec) == FALSE

\* key_str == &security.api_key
legacy_matches(key_str, sec) == key_str = sec.api_key

resolve_identity_legacy_first(found, key_str, sec) ==
    IF found.tag # "Err" /\ key_str = sec.api_key
    THEN <<AuthenticatedKey(key_str, "legacy", "Legacy Config Key")>>
    ELSE IF found.tag = "Some" /\ found.rec.enabled
         THEN <<AuthenticatedKey(key_str, found.rec.id, found.rec.name)>>
         ELSE <<>>

resolve_identity_enabled_unchecked(found, key_str, sec) ==
    IF found.tag = "Some"
    THEN <<AuthenticatedKey(key_str, found.rec.id, found.rec.name)>>
    ELSE IF found.tag = "None" /\ key_str = sec.api_key
         THEN <<AuthenticatedKey(key_str, "legacy", "Legacy Config Key")>>
         ELSE <<>>

\* `match find_by_key(key_str) { ... }`: the AuthenticatedKey values the
\* match inserts into the request extensions.
resolve_identity(found, key_str, sec) ==
    IF found.tag = "Some"
    THEN IF found.rec.enabled
         THEN <<AuthenticatedKey(key_str, found.rec.id, found.rec.name)>>
         ELSE <<>>
    ELSE IF found.tag = "None"
         THEN IF legacy_matches(key_str, sec)
              THEN <<AuthenticatedKey(key_str, "legacy", "Legacy Config Key")>>
              ELSE <<>>
         ELSE <<>>

has_authenticated_key_always(ext) == TRUE

\* request.extensions().get::<AuthenticatedKey>().is_some()
has_authenticated_key(ext) == Len(ext) > 0

(* ------------------------------------------------------------------ *)
(* auth_middleware: actions                                            *)
(* ------------------------------------------------------------------ *)

\* A request reaches the middleware, with empty extensions.
Arrive(req) ==
    /\ auth_pc = "idle"
    /\ auth_pc' = "received"
    /\ request' = req
    /\ extensions' = <<>>
    /\ lookup' = "not called"
    /\ auth_result' = "none"
    /\ UNCHANGED <<security, api_keys>>
    /\ UNCHANGED <<upVars, monVars, webVars>>

\* auth_middleware, from entry to its return value.
auth_middleware(db_ok) ==
    /\ auth_pc = "received"
    /\ auth_pc' = "responded"
    /\ LET method == request.method
           path == request.path
       IN IF method = "OPTIONS"
          THEN /\ auth_result' = "next"
               /\ UNCHANGED <<extensions, lookup>>
          ELSE IF is_static_asset(path)
          THEN /\ auth_result' = "next"
               /\ UNCHANGED <<extensions, lookup>>
          ELSE IF path = <<"/", "oauth-callback">>
                    \/ StartsWith(path, <<"/", "api", "/", "oauth", "/">>)
          THEN /\ auth_result' = "next"
               /\ UNCHANGED <<extensions, lookup>>
          ELSE LET effective_mode == security.auth_mode
                   api_key == extract_api_key(request)
                   found == IF Len(api_key) > 0
                            THEN find_by_key(api_keys, api_key[1], db_ok)
                            ELSE [tag |-> "not called", rec |-> NoRecord]
                   inserted == IF Len(api_key) > 0
                               THEN resolve_identity(found, api_key[1], security)
                               ELSE <<>>
               IN /\ lookup' = found.tag
                  /\ extensions' = extensions \o inserted
                  /\ auth_result' =
                        IF effective_mode = "Off"
                        THEN "next"
                        ELSE IF effective_mode = "AllExceptHealth"
                                  /\ path = <<"/", "healthz">>
                        THEN "next"
                        ELSE IF Len(api_key) = 0
                        THEN "UNAUTHORIZED"
                        ELSE IF has_authenticated_key(extensions')
                        THEN "next"
                        ELSE "UNAUTHORIZED"
    /\ UNCHANGED <<security, api_keys, request>>
    /\ UNCHANGED <<upVars, monVars, webVars>>

\* The response has been sent and the request is dropped.
Complete ==
    /\ auth_pc = "responded"
    /\ auth_pc' = "idle"
    /\ request' = NoRequest
    /\ extensions' = <<>>
    /\ lookup' = "not called"
    /\ auth_result' = "none"
    /\ UNCHANGED <<security, api_keys>>
    /\ UNCHANGED <<upVars, monVars, webVars>>

\* update_api_key (admin surface): set_api_key_enabled(id, enabled).
update_api_key(id, enabled) ==
    /\ api_keys' = [api_keys EXCEPT ![id].enabled = enabled]
    /\ UNCHANGED <<security, request, extensions, lookup, auth_pc, auth_result>>
    /\ UNCHANGED <<upVars, monVars, webVars>>

NextAuth ==
    \/ \E req \in Requests : Arrive(req)
    \/ \E db_ok \in BOOLEAN : auth_middleware(db_ok)
    \/ Complete
    \/ \E id \in RecordIds, enabled \in BOOLEAN : update_api_key(id, enabled)

(* ------------------------------------------------------------------ *)
(* monitor_middleware: bounds                                          *)
(* ------------------------------------------------------------------ *)

\* Longest SSE body, in chunks.
MaxChunks == 3

\* Capacity of the forwarding channel. The source creates it with
\* tokio::sync::mpsc::channel(64); the model keeps the behaviour (a send
\* waits while that many items are unread) at a smaller capacity.
ChannelCapacity == 2

\* Size of the tail window in bytes. The source keeps 8192 bytes; the model
\* keeps the same arithmetic over a smaller window, one token per byte.
TailWindow == 4

(* ------------------------------------------------------------------ *)
(* monitor_middleware: data                                            *)
(* ------------------------------------------------------------------ *)

\* str.contains(tok), for a token of a tokenised string.
Contains(str, tok) == \E i \in 1..Len(str) : str[i] = tok

\* First index at which sub occurs in str, 0 when it does not.
IndexOf(str, sub) ==
    LET hits == {i \in 1..(Len(str) - Len(sub) + 1) : SubSeq(str, i, i + Len(sub) - 1) = sub}
    IN IF hits = {} THEN 0 ELSE CHOOSE i \in hits : \A j \in hits : i <= j

Uris ==
    { <<"/", "v1", "/", "messages">>,
      <<"/", "v1", "/", "event_logging">>,
      <<"/", "api", "/", "keys">>,
      <<"/", "v1beta", "/", "models", "/", "gemini-pro", ":", "generateContent">> }

\* JSON texts that occur in bodies and SSE events.
JsonWithModel == "{\"model\":\"claude-3\"}"
JsonUsageSplit == "{\"usage\":{\"prompt_tokens\":10,\"completion_tokens\":5}}"
JsonUsageTotal == "{\"usage\":{\"total_tokens\":42}}"
JsonUsageWide == "{\"usage\":{\"prompt_tokens\":4294967303,\"output_tokens\":7}}"
JsonUsageText == "{\"usage\":{\"prompt_tokens\":\"n/a\",\"input_tokens\":3}}"
JsonNoUsage == "{\"id\":\"msg_1\"}"
JsonTruncated == "{\"usage\":"

\* A member of a JSON object: absent, a u64 number, or some other value.
\* A u64 is kept as two 32-bit halves: its value is hi * 2^32 + lo.
NoMember == [present |-> FALSE, u64 |-> FALSE, hi |-> 0, lo |-> 0]
Number(n) == [present |-> TRUE, u64 |-> TRUE, hi |-> 0, lo |-> n]
WideNumber(hi, lo) == [present |-> TRUE, u64 |-> TRUE, hi |-> hi, lo |-> lo]
NotANumber == [present |-> TRUE, u64 |-> FALSE, hi |-> 0, lo |-> 0]

UsageObject(prompt, input, completion, output, total) ==
    [prompt_tokens |-> prompt, input_tokens |-> input,
     completion_tokens |-> completion, output_tokens |-> output,
     total_tokens |-> total]

\* serde_json::from_str::<Value>: Err, or the members the handler reads.
ParseError == [ok |-> FALSE, model |-> <<>>, usage |-> <<>>]
Parsed(model, usage) == [ok |-> TRUE, model |-> model, usage |-> usage]

serde_json_from_str(text) ==
    CASE text = JsonWithModel -> Parsed(<< <<"claude-3">> >>, <<>>)
      [] text = JsonUsageSplit ->
            Parsed(<<>>, <<UsageObject(Number(10), NoMember, Number(5), NoMember, NoMember)>>)
      [] text = JsonUsageTotal ->
            Parsed(<<>>, <<UsageObject(NoMember, NoMember, NoMember, NoMember, Number(42))>>)
      [] text = JsonUsageWide ->
            Parsed(<<>>, <<UsageObject(WideNumber(1, 7), NoMember, NoMember, Number(7), NoMember)>>)
      [] text = JsonUsageText ->
            Parsed(<<>>, <<UsageObject(NotANumber, Number(3), NoMember, NoMember, NoMember)>>)
      [] text = JsonNoUsage -> Parsed(<<>>, <<>>)
      [] OTHER -> ParseError

\* text.contains("\"usage\"")
contains_usage(text) ==
    text \in {JsonUsageSplit, JsonUsageTotal, JsonUsageWide, JsonUsageText, JsonTruncated}

\* A body read as a whole: its length in bytes, whether the bytes are valid
\* UTF-8, and the text they spell.
Bytes(len, utf8, text) == [len |-> len, utf8 |-> utf8, text |-> text]
EmptyBody == Bytes(0, TRUE, "")

REQUEST_BODY_LIMIT == 1024 * 1024
RESPONSE_BODY_LIMIT == 512 * 1024

RequestBodies ==
    { Bytes(20, TRUE, JsonWithModel),
      Bytes(4, FALSE, "\\xff\\xfe\\x00\\x01"),
      Bytes(REQUEST_BODY_LIMIT + 1, TRUE, "oversized request") }

ResponseBodies ==
    { Bytes(52, TRUE, JsonUsageSplit),
      Bytes(29, TRUE, JsonUsageTotal),
      Bytes(60, TRUE, JsonUsageWide),
      Bytes(52, TRUE, JsonUsageText),
      Bytes(9, TRUE, JsonTruncated),
      Bytes(4, FALSE, "\\xff\\xfe\\x00\\x01"),
      Bytes(RESPONSE_BODY_LIMIT, TRUE, JsonNoUsage),
      Bytes(RESPONSE_BODY_LIMIT + 1, TRUE, "oversized response") }

\* request.extensions().get::<AuthenticatedKey>().cloned()
AuthenticatedKeys ==
    { <<>>, <<AuthenticatedKey(<<"sk-dyn-1">>, "key-1", "first")>> }

MonitorRequests ==
    {r \in [uri : Uris, method : {"POST", "GET"},
            body : RequestBodies \cup {EmptyBody},
            authenticated_key : AuthenticatedKeys] :
        r.method = "GET" <=> r.body = EmptyBody}

NoMonitorRequest ==
    [uri |-> <<"/">>, method |-> "GET", body |-> EmptyBody, authenticated_key |-> <<>>]

\* Statuses the downstream handler may answer with.
ResponseStatuses == {200, 302, 500}

\* The content-type header as text ("" when absent or not ASCII).
ContentTypes ==
    {"text/event-stream", "application/json", "text/plain", "image/png", ""}

\* content_type.contains("text/event-stream")
contains_event_stream(content_type) == content_type = "text/event-stream"

\* content_type.contains("application/json") || content_type.contains("text/")
contains_json_or_text(content_type) ==
    content_type \in {"application/json", "text/plain", "text/event-stream"}

\* Items of a streamed body: Ok(chunk) with its bytes, or Err.
Chunk(bytes) == [ok |-> TRUE, bytes |-> bytes]
StreamError == [ok |-> FALSE, bytes |-> <<>>]
NoChunk == [ok |-> FALSE, bytes |-> <<"none">>]

ChunkKinds ==
    { Chunk(<<"data: ", JsonUsageSplit, "\n">>),
      Chunk(<<"data: ", "[DONE]", "\n">>),
      Chunk(<<"x", "data: ", JsonUsageTotal, "\n", "\n">>),
      Chunk(<<"\\xff">>) }

\* Streamed bodies: up to MaxChunks chunks; a transport error ends the body.
RECURSIVE SeqsUpTo(_, _)
SeqsUpTo(S, n) ==
    IF n = 0
    THEN {<<>>}
    ELSE LET shorter == SeqsUpTo(S, n - 1)
         IN shorter \cup {Append(s, x) : s \in {t \in shorter : Len(t) = n - 1}, x \in S}

Streams ==
    LET whole == SeqsUpTo(ChunkKinds, MaxChunks)
    IN whole \cup {Append(s, StreamError) : s \in {t \in whole : Len(t) < MaxChunks}}

\* The response of the downstream handler: a buffered body or a stream.
Responses ==
    [status : ResponseStatuses, content_type : ContentTypes \ {"text/event-stream"},
     body : ResponseBodies, stream : {<<>>}]
    \cup
    [status : ResponseStatuses, content_type : {"text/event-stream"},
     body : {EmptyBody}, stream : Streams]

NoResponseYet == [status |-> 0, content_type |-> "", body |-> EmptyBody, stream |-> <<>>]

(* ------------------------------------------------------------------ *)
(* monitor_middleware: pure functions                                  *)
(* ------------------------------------------------------------------ *)

is_api_request_any_v1(uri) == StartsWith(uri, <<"/", "v1", "/">>)

\* uri.starts_with("/v1/") && !uri.contains("event_logging")
is_api_request(uri) ==
    StartsWith(uri, <<"/", "v1", "/">>) /\ ~Contains(uri, "event_logging")

\* uri.split("/v1beta/models/").nth(1).and_then(|s| s.split(':').next())
model_from_uri(uri) ==
    LET marker == <<"/", "v1beta", "/", "models", "/">>
        p == IndexOf(uri, marker)
    IN IF p = 0
       THEN <<>>
       ELSE LET rest == SubSeq(uri, p + Len(marker), Len(uri))
                q == IndexOf(rest, marker)
                piece == IF q = 0 THEN rest ELSE SubSeq(rest, 1, q - 1)
                c == IndexOf(piece, <<":">>)
            IN << IF c = 0 THEN piece ELSE SubSeq(piece, 1, c - 1) >>

\* axum::body::to_bytes(body, limit): Err when the body is longer.
to_bytes(body, limit) ==
    IF body.len <= limit
    THEN [ok |-> TRUE, bytes |-> body]
    ELSE [ok |-> FALSE, bytes |-> EmptyBody]

\* serde_json::from_slice(&bytes).ok().and_then(|v| v.get("model")...)
model_from_body(bytes) ==
    IF bytes.utf8 THEN serde_json_from_str(bytes.text).model ELSE <<>>

\* Some(text), or the marker when the bytes are not UTF-8.
body_text_or(bytes, marker) ==
    IF bytes.utf8 THEN <<bytes.text>> ELSE <<marker>>

\* Option::or on two `usage.get(..)` results.
or_member(a, b) == IF a.present THEN a ELSE b

\* .and_then(|v| v.as_u64()).map(|v| v as u32): the cast keeps the low
\* 32 bits.
as_u32(member) ==
    IF member.present /\ member.u64 THEN <<member.lo>> ELSE <<>>

NoTokens == [input |-> <<>>, output |-> <<>>]

\* The three assignments to log.input_tokens / log.output_tokens.
usage_tokens(usage) ==
    LET input == as_u32(or_member(usage.prompt_tokens, usage.input_tokens))
        output == as_u32(or_member(usage.completion_tokens, usage.output_tokens))
    IN [input |-> input,
        output |-> IF input = <<>> /\ output = <<>>
                   THEN as_u32(usage.total_tokens)
                   ELSE output]

push_tail_from_chunk_only(tail, bytes) ==
    IF Len(bytes) > TailWindow
    THEN SubSeq(bytes, Len(bytes) - TailWindow + 1, Len(bytes))
    ELSE bytes

\* The tail window after one more chunk.
push_tail(tail, bytes) ==
    IF Len(bytes) > TailWindow
    THEN SubSeq(bytes, Len(bytes) - TailWindow + 1, Len(bytes))
    ELSE LET extended == tail \o bytes
         IN IF Len(extended) > TailWindow
            THEN SubSeq(extended, Len(extended) - TailWindow + 1, Len(extended))
            ELSE extended

\* std::str::from_utf8(..).is_ok()
is_utf8(bytes) == ~Contains(bytes, "\\xff")

\* str::lines(): the pieces between line feeds, without a final empty one.
RECURSIVE lines(_)
lines(text) ==
    IF text = <<>>
    THEN <<>>
    ELSE LET nl == IndexOf(text, <<"\n">>)
         IN IF nl = 0
            THEN <<text>>
            ELSE <<SubSeq(text, 1, nl - 1)>> \o lines(SubSeq(text, nl + 1, Len(text)))

\* line.trim_start_matches("data: ")
RECURSIVE trim_start_data(_)
trim_start_data(line) ==
    IF line # <<>> /\ Head(line) = "data: " THEN trim_start_data(Tail(line)) ELSE line

\* The usage object of one line of the tail, if the line yields one.
usage_of_line(line) ==
    IF StartsWith(line, <<"data: ">>) /\ \E i \in 1..Len(line) : contains_usage(line[i])
    THEN LET json_str == trim_start_data(line)
         IN IF Len(json_str) = 1
            THEN serde_json_from_str(json_str[1]).usage
            ELSE <<>>
    ELSE <<>>

\* `for line in full_tail.lines().rev()`: from line k down to the first,
\* the first line that yields a usage object decides; then break.
RECURSIVE scan_lines(_, _)
scan_lines(ls, k) ==
    IF k = 0
    THEN NoTokens
    ELSE IF usage_of_line(ls[k]) # <<>>
         THEN usage_tokens(usage_of_line(ls[k])[1])
         ELSE scan_lines(ls, k - 1)

\* Usage extraction from the tail window when the stream has ended.
scan_tail(tail) ==
    IF is_utf8(tail)
    THEN scan_lines(lines(tail), Len(lines(tail)))
    ELSE NoTokens

\* Usage extraction from a buffered body.
scan_body(bytes) ==
    IF bytes.utf8
    THEN LET json == serde_json_from_str(bytes.text)
         IN IF json.ok /\ json.usage # <<>>
            THEN usage_tokens(json.usage[1])
            ELSE NoTokens
    ELSE NoTokens

\* One invocation of crate::modules::api_keys::record_usage and its result.
UsageCall(key, success, input_tokens, output_tokens, ok) ==
    [key |-> key, success |-> success, input_tokens |-> input_tokens,
     output_tokens |-> output_tokens, ok |-> ok]

\* Arguments passed by the branch taken when the monitor is disabled.
usage_when_disabled(key, status, ok) ==
    UsageCall(key, is_success(status), <<>>, <<>>, ok)

\* Arguments passed once the response has been observed (monitor enabled).
usage_when_enabled(key, status, tokens, ok) ==
    UsageCall(key, status < 400, tokens.input, tokens.output, ok)

\* Arguments passed when the buffered body could not be read.
usage_when_too_large(key, ok) == UsageCall(key, FALSE, <<>>, <<>>, ok)

\* ProxyRequestLog (id, timestamp and duration are left out).
ProxyRequestLog(method, url, status, model, error, request_body, response_body, tokens) ==
    [method |-> method, url |-> url, status |-> status, model |-> model,
     error |-> error, request_body |-> request_body,
     response_body |-> response_body,
     input_tokens |-> tokens.input, output_tokens |-> tokens.output]

NoLog == ProxyRequestLog("", <<>>, 0, <<>>, <<>>, <<>>, <<>>, NoTokens)

\* What the caller is handed: status, and the body either as it is or as
\* the receiving end of the forwarding channel.
Delivered(status, body, stream, receiver) ==
    [status |-> status, body |-> body, stream |-> stream, receiver |-> receiver]

NothingDelivered == Delivered(0, EmptyBody, <<>>, FALSE)

tx_send_newest_first(queue, item) == <<item>> \o queue

\* tx.send(item): the item joins the channel behind the unread ones.
tx_send(queue, item) == Append(queue, item)

after_send_stop_when_closed(sent) == IF sent THEN "next" ELSE "stopped"

\* `let _ = tx.send(..).await;`: the result is dropped, the loop goes on.
after_send(sent) == "next"

(* ------------------------------------------------------------------ *)
(* monitor_middleware: actions                                         *)
(* ------------------------------------------------------------------ *)

\* format!("[{}]", content_type)
bracketed(content_type) ==
    CASE content_type = "image/png" -> "[image/png]"
      [] content_type = "text/plain" -> "[text/plain]"
      [] content_type = "application/json" -> "[application/json]"
      [] content_type = "text/event-stream" -> "[text/event-stream]"
      [] OTHER -> "[]"

\* No observing task exists for the request.
NoObserver ==
    /\ obs_pc' = "none"
    /\ stream_pos' = 0
    /\ chunk' = NoChunk
    /\ channel' = <<>>
    /\ rx_open' = FALSE
    /\ caller_got' = <<>>
    /\ last_few_bytes' = <<>>
    /\ log' = NoLog

\* A request reaches the middleware; the per-request records start empty.
MonitorArrive(req) ==
    /\ mon_pc = "idle"
    /\ mon_pc' = "received"
    /\ mon_request' = req
    /\ forwarded' = <<>>
    /\ downstream' = NoResponseYet
    /\ delivered' = NothingDelivered
    /\ usage_calls' = <<>>
    /\ log_sink' = <<>>
    /\ NoObserver
    /\ UNCHANGED monitor_enabled
    /\ UNCHANGED <<upVars, authVars, webVars>>

\* monitor_middleware, from entry to the Response it returns; resp is what
\* next.run(request) answers, usage_ok whether record_usage succeeds. For an
\* SSE response the observing task is spawned and runs in the Observe steps.
monitor_middleware(resp, usage_ok) ==
    /\ mon_pc = "received"
    /\ mon_pc' = "responded"
    /\ downstream' = resp
    /\ LET authenticated_key == mon_request.authenticated_key
           uri == mon_request.uri
           method == mon_request.method
           tracked == is_api_request(uri) /\ authenticated_key # <<>>
           untouched == Delivered(resp.status, resp.body, resp.stream, FALSE)
       IN IF ~monitor_enabled
          THEN /\ forwarded' = <<mon_request.body>>
               /\ usage_calls' =
                     IF tracked
                     THEN <<usage_when_disabled(authenticated_key[1].key, resp.status, usage_ok)>>
                     ELSE <<>>
               /\ delivered' = untouched
               /\ UNCHANGED log_sink
               /\ NoObserver
          ELSE IF Contains(uri, "event_logging")
          THEN /\ forwarded' = <<mon_request.body>>
               /\ delivered' = untouched
               /\ UNCHANGED <<usage_calls, log_sink>>
               /\ NoObserver
          ELSE LET captured == to_bytes(mon_request.body, REQUEST_BODY_LIMIT)
                   model == IF model_from_uri(uri) = <<>> /\ method = "POST" /\ captured.ok
                            THEN model_from_body(captured.bytes)
                            ELSE model_from_uri(uri)
                   request_body_str ==
                       IF method = "POST" /\ captured.ok
                       THEN body_text_or(captured.bytes, "[Binary Request Data]")
                       ELSE <<>>
                   new_log(error, response_body, tokens) ==
                       ProxyRequestLog(method, uri, resp.status, model, error,
                                       request_body_str, response_body, tokens)
               IN /\ forwarded' = IF method = "POST"
                                  THEN <<captured.bytes>>
                                  ELSE <<mon_request.body>>
                  /\ IF contains_event_stream(resp.content_type)
                     THEN /\ log' = new_log(<<>>, <<"[Stream Data]">>, NoTokens)
                          /\ obs_pc' = "next"
                          /\ stream_pos' = 0
                          /\ chunk' = NoChunk
                          /\ channel' = <<>>
                          /\ rx_open' = TRUE
                          /\ caller_got' = <<>>
                          /\ last_few_bytes' = <<>>
                          /\ delivered' = Delivered(resp.status, EmptyBody, <<>>, TRUE)
                          /\ UNCHANGED <<usage_calls, log_sink>>
                     ELSE IF contains_json_or_text(resp.content_type)
                     THEN LET read == to_bytes(resp.body, RESPONSE_BODY_LIMIT)
                          IN IF read.ok
                             THEN LET tokens == scan_body(read.bytes)
                                      response_body ==
                                          body_text_or(read.bytes, "[Binary Response Data]")
                                      error == IF resp.status >= 400
                                               THEN response_body
                                               ELSE <<>>
                                  IN /\ usage_calls' =
                                           IF tracked
                                           THEN <<usage_when_enabled(authenticated_key[1].key,
                                                                     resp.status, tokens, usage_ok)>>
                                           ELSE <<>>
                                     /\ log_sink' = Append(log_sink,
                                                           new_log(error, response_body, tokens))
                                     /\ delivered' = Delivered(resp.status, read.bytes, <<>>, FALSE)
                                     /\ NoObserver
                             ELSE /\ usage_calls' =
                                        IF tracked
                                        THEN <<usage_when_too_large(authenticated_key[1].key, usage_ok)>>
                                        ELSE <<>>
                                  /\ log_sink' = Append(log_sink,
                                                        new_log(<<>>, <<"[Response too large]">>,
                                                                NoTokens))
                                  /\ delivered' = Delivered(resp.status, EmptyBody, <<>>, FALSE)
                                  /\ NoObserver
                     ELSE /\ usage_calls' =
                                IF tracked
                                THEN <<usage_when_enabled(authenticated_key[1].key,
                                                          resp.status, NoTokens, usage_ok)>>
                                ELSE <<>>
                          /\ log_sink' = Append(log_sink,
                                                new_log(<<>>, <<bracketed(resp.content_type)>>,
                                                        NoTokens))
                          /\ delivered' = untouched
                          /\ NoObserver
    /\ UNCHANGED <<monitor_enabled, mon_request>>
    /\ UNCHANGED <<upVars, authVars, webVars>>

\* Whether `tx.send(..).await` can complete: the channel has room, or the
\* receiver is gone (the send then fails without waiting).
send_ready == rx_open => Len(channel) < ChannelCapacity

\* The observing task: `stream.next().await` yields the next item; a chunk
\* is folded into the tail window before it is forwarded.
ObserveNext ==
    /\ obs_pc = "next"
    /\ stream_pos < Len(downstream.stream)
    /\ LET item == downstream.stream[stream_pos + 1]
       IN /\ chunk' = item
          /\ last_few_bytes' = IF item.ok
                               THEN push_tail(last_few_bytes, item.bytes)
                               ELSE last_few_bytes
    /\ stream_pos' = stream_pos + 1
    /\ obs_pc' = "send"
    /\ UNCHANGED <<monitor_enabled, mon_request, forwarded, downstream, delivered,
                   usage_calls, log_sink, mon_pc, channel, rx_open, caller_got, log>>
    /\ UNCHANGED <<upVars, authVars, webVars>>

\* The observing task: `tx.send(item).await`. The send waits while the
\* channel is full and the receiver is alive; with the receiver dropped it
\* fails at once and the item is lost.
ObserveSend ==
    /\ obs_pc = "send"
    /\ send_ready
    /\ channel' = IF rx_open THEN tx_send(channel, chunk) ELSE channel
    /\ obs_pc' = after_send(rx_open)
    /\ chunk' = NoChunk
    /\ UNCHANGED <<monitor_enabled, mon_request, forwarded, downstream, delivered,
                   usage_calls, log_sink, mon_pc, stream_pos, rx_open, caller_got,
                   last_few_bytes, log>>
    /\ UNCHANGED <<upVars, authVars, webVars>>

\* The observing task after the stream has ended: scan the tail window,
\* record the usage, write the log record; the sender is dropped.
ObserveEnd(usage_ok) ==
    /\ obs_pc = "next"
    /\ stream_pos = Len(downstream.stream)
    /\ LET tokens == scan_tail(last_few_bytes)
           error == IF log.status >= 400 THEN <<"Stream Error or Failed">> ELSE log.error
           final == [log EXCEPT !.input_tokens = tokens.input,
                                !.output_tokens = tokens.output,
                                !.error = error]
           authenticated_key == mon_request.authenticated_key
       IN /\ usage_calls' =
                IF is_api_request(mon_request.uri) /\ authenticated_key # <<>>
                THEN Append(usage_calls,
                            usage_when_enabled(authenticated_key[1].key, log.status,
                                               tokens, usage_ok))
                ELSE usage_calls
          /\ log_sink' = Append(log_sink, final)
          /\ log' = final
    /\ obs_pc' = "done"
    /\ UNCHANGED <<monitor_enabled, mon_request, forwarded, downstream, delivered,
                   mon_pc, stream_pos, chunk, channel, rx_open, caller_got,
                   last_few_bytes>>
    /\ UNCHANGED <<upVars, authVars, webVars>>

\* The caller reads the next item of the body it was handed.
CallerRead ==
    /\ delivered.receiver
    /\ rx_open
    /\ channel # <<>>
    /\ caller_got' = Append(caller_got, Head(channel))
    /\ channel' = Tail(channel)
    /\ UNCHANGED <<monitor_enabled, mon_request, forwarded, downstream, delivered,
                   usage_calls, log_sink, mon_pc, stream_pos, chunk, obs_pc, rx_open,
                   last_few_bytes, log>>
    /\ UNCHANGED <<upVars, authVars, webVars>>

\* The caller goes away: the receiver is dropped with what it still held.
CallerDisconnect ==
    /\ delivered.receiver
    /\ rx_open
    /\ rx_open' = FALSE
    /\ channel' = <<>>
    /\ UNCHANGED <<monitor_enabled, mon_request, forwarded, downstream, delivered,
                   usage_calls, log_sink, mon_pc, stream_pos, chunk, obs_pc, caller_got,
                   last_few_bytes, log>>
    /\ UNCHANGED <<upVars, authVars, webVars>>

\* The exchange is over: the handler has returned and no observing task is
\* left running.
MonitorComplete ==
    /\ mon_pc = "responded"
    /\ obs_pc \in {"none", "done"}
    /\ mon_pc' = "idle"
    /\ mon_request' = NoMonitorRequest
    /\ forwarded' = <<>>
    /\ downstream' = NoResponseYet
    /\ delivered' = NothingDelivered
    /\ usage_calls' = <<>>
    /\ log_sink' = <<>>
    /\ NoObserver
    /\ UNCHANGED monitor_enabled
    /\ UNCHANGED <<upVars, authVars, webVars>>

NextMonitor ==
    \/ \E req \in MonitorRequests : MonitorArrive(req)
    \/ \E resp \in Responses, usage_ok \in BOOLEAN : monitor_middleware(resp, usage_ok)
    \/ ObserveNext
    \/ ObserveSend
    \/ \E usage_ok \in BOOLEAN : ObserveEnd(usage_ok)
    \/ CallerRead
    \/ CallerDisconnect
    \/ MonitorComplete

(* ------------------------------------------------------------------ *)
(* web_auth_middleware: bounds                                         *)
(* ------------------------------------------------------------------ *)

\* Last instant of the session clock.
MaxTime == 3

\* Lifetime a refresh gives a session, in ticks of the session clock.
SessionTtl == 2

(* ------------------------------------------------------------------ *)
(* web_auth_middleware: data                                           *)
(* ------------------------------------------------------------------ *)

SESSION_COOKIE_NAME == "antiproxy_session"

WebPaths ==
    { <<"/">>,
      <<"/", "index", ".", "html">>,
      <<"/", "login", ".", "html">>,
      <<"/", "login">>,
      <<"/", "dashboard">>,
      <<"/", "api", "/", "keys">>,
      <<"/", "api", "/", "logo", ".", "png">>,
      <<"/", "api", "/", "auth", "/", "login">>,
      <<"/", "api", "/", "oauth", "/", "callback">>,
      <<"/", "oauth-callback">>,
      <<"/", "healthz">>,
      <<"/", "v1", "/", "messages">>,
      <<"/", "v1beta", "/", "models">>,
      <<"/", "assets", "/", "app">>,
      <<"/", "logo", ".", "svg">>,
      <<"/", "favicon", ".", "ico">> }

\* Session tokens a browser may present; the store knows them or not.
SessionTokens == {"s1", "s2"}

\* One `name=value` pair of a Cookie header.
CookiePair(name, value) == [name |-> name, value |-> value]

\* The Cookie header: absent, not visible ASCII, or a list of pairs.
NoCookieHeader == [present |-> FALSE, ascii |-> FALSE, cookies |-> <<>>]
OpaqueCookieHeader == [present |-> TRUE, ascii |-> FALSE, cookies |-> <<>>]
CookieHeader(pairs) == [present |-> TRUE, ascii |-> TRUE, cookies |-> pairs]

CookieHeaders ==
    { NoCookieHeader,
      OpaqueCookieHeader,
      CookieHeader(<<CookiePair("theme", "s1")>>),
      CookieHeader(<<CookiePair(SESSION_COOKIE_NAME, "s1")>>),
      CookieHeader(<<CookiePair("theme", "dark"), CookiePair(SESSION_COOKIE_NAME, "s2")>>) }

WebRequests == [path : WebPaths, cookie : CookieHeaders]

NoWebRequest == [path |-> <<"/">>, cookie |-> NoCookieHeader]

\* What web_auth_middleware returns: the handler's response (next.run), the
\* 401 JSON answer, or the redirect.
NoWebResponse == [kind |-> "none", status |-> 0, content |-> ""]
HandlerResponse == [kind |-> "next", status |-> 0, content |-> ""]
Unauthorized ==
    [kind |-> "json", status |-> 401, content |-> "{\"error\": \"Authentication required\"}"]
RedirectToLogin == [kind |-> "redirect", status |-> 303, content |-> "/login.html"]

\* The session store: per token, whether a session exists and its expiry.
NoSession == [present |-> FALSE, expiry |-> 0]
Session(expiry) == [present |-> TRUE, expiry |-> expiry]

InitialSessions ==
    [t \in SessionTokens |-> IF t = "s1" THEN Session(SessionTtl) ELSE NoSession]

(* ------------------------------------------------------------------ *)
(* web_auth_middleware: pure functions                                 *)
(* ------------------------------------------------------------------ *)

\* path.ends_with(".html")
ends_with_html(path) ==
    Len(path) >= 2 /\ path[Len(path) - 1] = "." /\ path[Len(path)] = "html"

\* is_static_asset of web_auth.rs (auth.rs has its own).
is_static_asset_web(path) ==
    IF ends_with_html(path)
    THEN FALSE
    ELSE IF path = <<"/", "favicon", ".", "ico">>
    THEN TRUE
    ELSE IF StartsWith(path, <<"/", "assets", "/">>)
    THEN TRUE
    ELSE rsplit_dot_next(path) \in
            { <<"css">>, <<"js">>, <<"png">>, <<"svg">>, <<"jpg">>, <<"jpeg">>,
              <<"webp">>, <<"ico">>, <<"woff">>, <<"woff2">>, <<"ttf">> }

is_protected_path_v1_too(path) ==
    IF StartsWith(path, <<"/", "api", "/">>)
    THEN ~StartsWith(path, <<"/", "api", "/", "auth", "/">>)
            /\ ~StartsWith(path, <<"/", "api", "/", "oauth", "/">>)
    ELSE ~is_static_asset_web(path)
            /\ path \notin { <<"/", "login", ".", "html">>, <<"/", "login">>,
                             <<"/", "oauth-callback">>, <<"/", "healthz">> }

is_protected_path(path) ==
    IF StartsWith(path, <<"/", "api", "/">>)
    THEN IF StartsWith(path, <<"/", "api", "/", "auth", "/">>)
         THEN FALSE
         ELSE IF StartsWith(path, <<"/", "api", "/", "oauth", "/">>)
         THEN FALSE
         ELSE TRUE
    ELSE IF is_static_asset_web(path)
    THEN FALSE
    ELSE IF path = <<"/", "login", ".", "html">> \/ path = <<"/", "login">>
    THEN FALSE
    ELSE IF path = <<"/", "oauth-callback">>
    THEN FALSE
    ELSE IF path = <<"/", "healthz">>
    THEN FALSE
    ELSE IF StartsWith(path, <<"/", "v1", "/">>) \/ StartsWith(path, <<"/", "v1beta", "/">>)
    THEN FALSE
    ELSE TRUE

\* extract_session_token: the value of the first cookie of the header
\* whose text starts with "antiproxy_session=".
extract_session_token(req) ==
    IF ~req.cookie.present \/ ~req.cookie.ascii
    THEN <<>>
    ELSE LET named == {i \in 1..Len(req.cookie.cookies) :
                          req.cookie.cookies[i].name = SESSION_COOKIE_NAME}
         IN IF named = {}
            THEN <<>>
            ELSE << req.cookie.cookies[CHOOSE i \in named : \A j \in named : i <= j].value >>

unauthenticated_response_redirect_always(path) == RedirectToLogin

\* The answer to an unauthenticated request on a protected path.
unauthenticated_response(path) ==
    IF StartsWith(path, <<"/", "api", "/">>)
    THEN Unauthorized
    ELSE RedirectToLogin

\* SessionManager::validate_session: a session exists for the token and
\* has not expired.
validate_session(store, t, time) ==
    store[t].present /\ time < store[t].expiry

\* SessionManager::refresh_session: the expiry of an existing session is
\* moved to a full lifetime from now.
refresh_session(store, t, time) ==
    IF store[t].present
    THEN [store EXCEPT ![t] = Session(time + SessionTtl)]
    ELSE store

(* ------------------------------------------------------------------ *)
(* web_auth_middleware: actions                                        *)
(* ------------------------------------------------------------------ *)

\* A request reaches the middleware.
WebArrive(req) ==
    /\ web_pc = "idle"
    /\ web_pc' = "received"
    /\ web_request' = req
    /\ session_token' = <<>>
    /\ validate_calls' = <<>>
    /\ refresh_calls' = <<>>
    /\ web_response' = NoWebResponse
    /\ UNCHANGED <<sessions, now>>
    /\ UNCHANGED <<upVars, authVars, monVars>>

\* web_auth_middleware from entry to its first await on the session store,
\* or to its return when the store is not consulted.
web_auth_middleware ==
    /\ web_pc = "received"
    /\ LET path == web_request.path
           extracted == extract_session_token(web_request)
       IN IF ~is_protected_path(path)
          THEN /\ web_pc' = "responded"
               /\ web_response' = HandlerResponse
               /\ UNCHANGED session_token
          ELSE IF extracted = <<>>
          THEN /\ web_pc' = "responded"
               /\ web_response' = unauthenticated_response(path)
               /\ UNCHANGED session_token
          ELSE /\ web_pc' = "validate"
               /\ session_token' = extracted
               /\ UNCHANGED web_response
    /\ UNCHANGED <<sessions, now, web_request, validate_calls, refresh_calls>>
    /\ UNCHANGED <<upVars, authVars, monVars>>

\* `session_manager.validate_session(&token).await` answers; on false the
\* unauthenticated answer is returned.
ValidateSession ==
    /\ web_pc = "validate"
    /\ LET valid == validate_session(sessions, session_token[1], now)
       IN /\ validate_calls' = Append(validate_calls, valid)
          /\ IF valid
             THEN /\ web_pc' = "refresh"
                  /\ UNCHANGED web_response
             ELSE /\ web_pc' = "responded"
                  /\ web_response' = unauthenticated_response(web_request.path)
    /\ UNCHANGED <<sessions, now, web_request, session_token, refresh_calls>>
    /\ UNCHANGED <<upVars, authVars, monVars>>

\* `session_manager.refresh_session(&token).await` completes and the
\* protected handler runs (next.run).
RefreshSession ==
    /\ web_pc = "refresh"
    /\ sessions' = refresh_session(sessions, session_token[1], now)
    /\ refresh_calls' = Append(refresh_calls, session_token[1])
    /\ web_pc' = "responded"
    /\ web_response' = HandlerResponse
    /\ UNCHANGED <<now, web_request, session_token, validate_calls>>
    /\ UNCHANGED <<upVars, authVars, monVars>>

\* The response has been sent and the request is dropped.
WebComplete ==
    /\ web_pc = "responded"
    /\ web_pc' = "idle"
    /\ web_request' = NoWebRequest
    /\ session_token' = <<>>
    /\ validate_calls' = <<>>
    /\ refresh_calls' = <<>>
    /\ web_response' = NoWebResponse
    /\ UNCHANGED <<sessions, now>>
    /\ UNCHANGED <<upVars, authVars, monVars>>

\* Time passes; sessions whose expiry is reached lapse.
Tick ==
    /\ now < MaxTime
    /\ now' = now + 1
    /\ UNCHANGED <<sessions, web_request, web_pc, session_token, validate_calls,
                   refresh_calls, web_response>>
    /\ UNCHANGED <<upVars, authVars, monVars>>

\* A successful web login creates the session of a token.
Login(t) ==
    /\ ~sessions[t].present
    /\ sessions' = [sessions EXCEPT ![t] = Session(now + SessionTtl)]
    /\ UNCHANGED <<now, web_request, web_pc, session_token, validate_calls,
                   refresh_calls, web_response>>
    /\ UNCHANGED <<upVars, authVars, monVars>>

\* A logout invalidates the session of a token.
Logout(t) ==
    /\ sessions[t].present
    /\ sessions' = [sessions EXCEPT ![t] = NoSession]
    /\ UNCHANGED <<now, web_request, web_pc, session_token, validate_calls,
                   refresh_calls, web_response>>
    /\ UNCHANGED <<upVars, authVars, monVars>>

\* Another request with the same cookie passes the gate at the same time:
\* its validate_session is true and its refresh_session takes effect.
ConcurrentRefresh(t) ==
    /\ validate_session(sessions, t, now)
    /\ refresh_session(sessions, t, now) # sessions
    /\ sessions' = refresh_session(sessions, t, now)
    /\ UNCHANGED <<now, web_request, web_pc, session_token, validate_calls,
                   refresh_calls, web_response>>
    /\ UNCHANGED <<upVars, authVars, monVars>>

NextWebAuth ==
    \/ \E req \in WebRequests : WebArrive(req)
    \/ web_auth_middleware
    \/ ValidateSession
    \/ RefreshSession
    \/ WebComplete
    \/ Tick
    \/ \E t \in SessionTokens : Login(t)
    \/ \E t \in SessionTokens : Logout(t)
    \/ \E t \in SessionTokens : ConcurrentRefresh(t)

(* ------------------------------------------------------------------ *)
(* Specifications                                                      *)
(* ------------------------------------------------------------------ *)

\* UpstreamClient::new; the auth middleware is left idle.
InitUpstream ==
    /\ endpoints = InitialEndpoints
    /\ writer = 0
    /\ pc = [c \in Calls |-> "idle"]
    /\ op = [c \in Calls |-> "call_v1_internal"]
    /\ snapshot = [c \in Calls |-> <<>>]
    /\ idx = [c \in Calls |-> 0]
    /\ last_err = [c \in Calls |-> NoError]
    /\ response = [c \in Calls |-> NoResponse]
    /\ endpoint = [c \in Calls |-> ""]
    /\ result = [c \in Calls |-> NoResult]
    /\ attempts = [c \in Calls |-> <<>>]
    /\ inflight = [c \in Calls |-> 0]
    /\ interfered = [c \in Calls |-> FALSE]
    /\ security = [auth_mode |-> "Enforced", api_key |-> <<"sk-legacy">>]
    /\ api_keys = InitialApiKeys
    /\ request = NoRequest
    /\ extensions = <<>>
    /\ lookup = "not called"
    /\ auth_pc = "idle"
    /\ auth_result = "none"
    /\ monitor_enabled = TRUE
    /\ mon_request = NoMonitorRequest
    /\ forwarded = <<>>
    /\ downstream = NoResponseYet
    /\ delivered = NothingDelivered
    /\ usage_calls = <<>>
    /\ log_sink = <<>>
    /\ mon_pc = "idle"
    /\ stream_pos = 0
    /\ chunk = NoChunk
    /\ obs_pc = "none"
    /\ channel = <<>>
    /\ rx_open = FALSE
    /\ caller_got = <<>>
    /\ last_few_bytes = <<>>
    /\ log = NoLog
    /\ sessions = InitialSessions
    /\ now = 0
    /\ web_request = NoWebRequest
    /\ web_pc = "idle"
    /\ session_token = <<>>
    /\ validate_calls = <<>>
    /\ refresh_calls = <<>>
    /\ web_response = NoWebResponse

\* Any configuration of mode and legacy key; no upstream call is running.
InitAuth ==
    /\ security \in [auth_mode : AuthModes, api_key : LegacyKeys]
    /\ api_keys = InitialApiKeys
    /\ request = NoRequest
    /\ extensions = <<>>
    /\ lookup = "not called"
    /\ auth_pc = "idle"
    /\ auth_result = "none"
    /\ endpoints = InitialEndpoints
    /\ writer = 0
    /\ pc = [c \in Calls |-> "idle"]
    /\ op = [c \in Calls |-> "call_v1_internal"]
    /\ snapshot = [c \in Calls |-> <<>>]
    /\ idx = [c \in Calls |-> 0]
    /\ last_err = [c \in Calls |-> NoError]
    /\ response = [c \in Calls |-> NoResponse]
    /\ endpoint = [c \in Calls |-> ""]
    /\ result = [c \in Calls |-> NoResult]
    /\ attempts = [c \in Calls |-> <<>>]
    /\ inflight = [c \in Calls |-> 0]
    /\ interfered = [c \in Calls |-> FALSE]
    /\ monitor_enabled = TRUE
    /\ mon_request = NoMonitorRequest
    /\ forwarded = <<>>
    /\ downstream = NoResponseYet
    /\ delivered = NothingDelivered
    /\ usage_calls = <<>>
    /\ log_sink = <<>>
    /\ mon_pc = "idle"
    /\ stream_pos = 0
    /\ chunk = NoChunk
    /\ obs_pc = "none"
    /\ channel = <<>>
    /\ rx_open = FALSE
    /\ caller_got = <<>>
    /\ last_few_bytes = <<>>
    /\ log = NoLog
    /\ sessions = InitialSessions
    /\ now = 0
    /\ web_request = NoWebRequest
    /\ web_pc = "idle"
    /\ session_token = <<>>
    /\ validate_calls = <<>>
    /\ refresh_calls = <<>>
    /\ web_response = NoWebResponse

\* The monitor enabled or disabled; nothing else is running.
InitMonitor ==
    /\ monitor_enabled \in BOOLEAN
    /\ mon_request = NoMonitorRequest
    /\ forwarded = <<>>
    /\ downstream = NoResponseYet
    /\ delivered = NothingDelivered
    /\ usage_calls = <<>>
    /\ log_sink = <<>>
    /\ mon_pc = "idle"
    /\ stream_pos = 0
    /\ chunk = NoChunk
    /\ obs_pc = "none"
    /\ channel = <<>>
    /\ rx_open = FALSE
    /\ caller_got = <<>>
    /\ last_few_bytes = <<>>
    /\ log = NoLog
    /\ security = [auth_mode |-> "Enforced", api_key |-> <<"sk-legacy">>]
    /\ api_keys = InitialApiKeys
    /\ request = NoRequest
    /\ extensions = <<>>
    /\ lookup = "not called"
    /\ auth_pc = "idle"
    /\ auth_result = "none"
    /\ endpoints = InitialEndpoints
    /\ writer = 0
    /\ pc = [c \in Calls |-> "idle"]
    /\ op = [c \in Calls |-> "call_v1_internal"]
    /\ snapshot = [c \in Calls |-> <<>>]
    /\ idx = [c \in Calls |-> 0]
    /\ last_err = [c \in Calls |-> NoError]
    /\ response = [c \in Calls |-> NoResponse]
    /\ endpoint = [c \in Calls |-> ""]
    /\ result = [c \in Calls |-> NoResult]
    /\ attempts = [c \in Calls |-> <<>>]
    /\ inflight = [c \in Calls |-> 0]
    /\ interfered = [c \in Calls |-> FALSE]
    /\ sessions = InitialSessions
    /\ now = 0
    /\ web_request = NoWebRequest
    /\ web_pc = "idle"
    /\ session_token = <<>>
    /\ validate_calls = <<>>
    /\ refresh_calls = <<>>
    /\ web_response = NoWebResponse

\* The session of one token exists; nothing else is running.
InitWebAuth ==
    /\ sessions = InitialSessions
    /\ now = 0
    /\ web_request = NoWebRequest
    /\ web_pc = "idle"
    /\ session_token = <<>>
    /\ validate_calls = <<>>
    /\ refresh_calls = <<>>
    /\ web_response = NoWebResponse
    /\ monitor_enabled = TRUE
    /\ mon_request = NoMonitorRequest
    /\ forwarded = <<>>
    /\ downstream = NoResponseYet
    /\ delivered = NothingDelivered
    /\ usage_calls = <<>>
    /\ log_sink = <<>>
    /\ mon_pc = "idle"
    /\ stream_pos = 0
    /\ chunk = NoChunk
    /\ obs_pc = "none"
    /\ channel = <<>>
    /\ rx_open = FALSE
    /\ caller_got = <<>>
    /\ last_few_bytes = <<>>
    /\ log = NoLog
    /\ security = [auth_mode |-> "Enforced", api_key |-> <<"sk-legacy">>]
    /\ api_keys = InitialApiKeys
    /\ request = NoRequest
    /\ extensions = <<>>
    /\ lookup = "not called"
    /\ auth_pc = "idle"
    /\ auth_result = "none"
    /\ endpoints = InitialEndpoints
    /\ writer = 0
    /\ pc = [c \in Calls |-> "idle"]
    /\ op = [c \in Calls |-> "call_v1_internal"]
    /\ snapshot = [c \in Calls |-> <<>>]
    /\ idx = [c \in Calls |-> 0]
    /\ last_err = [c \in Calls |-> NoError]
    /\ response = [c \in Calls |-> NoResponse]
    /\ endpoint = [c \in Calls |-> ""]
    /\ result = [c \in Calls |-> NoResult]
    /\ attempts = [c \in Calls |-> <<>>]
    /\ inflight = [c \in Calls |-> 0]
    /\ interfered = [c \in Calls |-> FALSE]

\* Concurrent upstream calls.
SpecUpstream == InitUpstream /\ [][NextUpstream]_vars

\* One request after another through auth_middleware.
SpecAuth == InitAuth /\ [][NextAuth]_vars

\* One request after another through monitor_middleware, each with its
\* observing task and its caller.
SpecMonitor == InitMonitor /\ [][NextMonitor]_vars

\* One request after another through web_auth_middleware, while time
\* passes and sessions are created, invalidated and refreshed elsewhere.
SpecWebAuth == InitWebAuth /\ [][NextWebAuth]_vars


(* ------------------------------------------------------------------ *)
(* Vocabulary of the properties                                        *)
(* ------------------------------------------------------------------ *)

Is2xx(status) == status \in 200..299

IsRetryableStatus(status) == status \in {429, 408, 404} \/ status \in 500..599

IsPrefix(a, b) ==
    /\ Len(a) <= Len(b)
    /\ \A i \in 1..Len(a) : a[i] = b[i]

NoDuplicates(a) == \A i, j \in 1..Len(a) : a[i] = a[j] => i = j

\* s with the element at 0-based index k moved to the front.
MoveToFront(s, k) == <<s[k + 1]>> \o SubSeq(s, 1, k) \o SubSeq(s, k + 2, Len(s))

\* The step returns call c to its caller.
Returns(c) == pc[c] # "done" /\ pc'[c] = "done"

\* Call c got a 2xx answer from the endpoint at a snapshot index > 0.
FallbackSucceeded(c) ==
    /\ response[c].ok
    /\ Is2xx(response[c].status)
    /\ idx[c] > 0

(* ------------------------------------------------------------------ *)
(* C1                                                                  *)
(* ------------------------------------------------------------------ *)

\* C1: when a call of either operation returns after the endpoint at
\* snapshot index k > 0 answered 2xx, and no other call promoted during it,
\* the shared list is the snapshot with that endpoint moved to index 0 and
\* the others in their previous order; a call that starts takes the current
\* head of the shared list as the first element of its snapshot and sends
\* its first attempt there.
C1_PromotionMovesWinnerToFront ==
    [][\A c \in Calls :
          /\ (Returns(c) /\ FallbackSucceeded(c) /\ ~interfered'[c])
                => endpoints' = MoveToFront(snapshot[c], idx[c])
          /\ (pc[c] \in {"idle", "done"} /\ pc'[c] = "send")
                => At(snapshot'[c], 0) = At(endpoints, 0)
          /\ (pc[c] = "send" /\ idx[c] = 0 /\ pc'[c] = "await")
                => attempts'[c] = <<At(snapshot[c], 0)>>
      ]_vars

\* A call returned after its fallback endpoint answered 2xx, undisturbed,
\* and a later call is trying the promoted endpoint first.
C1_Witness ==
    \E c, d \in Calls :
        /\ c # d
        /\ pc[c] = "done"
        /\ FallbackSucceeded(c)
        /\ ~interfered[c]
        /\ snapshot[c] = InitialEndpoints
        /\ endpoints = <<V1_INTERNAL_BASE_URL_PROD, V1_INTERNAL_BASE_URL_DAILY>>
        /\ pc[d] = "await"
        /\ snapshot[d] = endpoints
        /\ attempts[d] = <<V1_INTERNAL_BASE_URL_PROD>>

(* ------------------------------------------------------------------ *)
(* C2                                                                  *)
(* ------------------------------------------------------------------ *)

\* C2 (as stated): call_v1_internal returns Err only when the last
\* endpoint of its snapshot was attempted and that attempt failed at
\* transport level.
C2_ErrOnlyAfterLastTransportFailure ==
    \A c \in Calls :
        (pc[c] = "done" /\ op[c] = "call_v1_internal" /\ ~result[c].ok)
            => /\ Len(snapshot[c]) > 0
               /\ attempts[c] = snapshot[c]
               /\ response[c] = TransportError

\* C2 (amended): call_v1_internal returns Err only when the Authorization
\* header value cannot be built (then no endpoint was attempted) or when the
\* last endpoint of its snapshot was attempted and failed at transport level
\* (then every endpoint was tried); whenever the last attempt got an HTTP
\* response it returns Ok with that response's status, from the endpoint
\* attempted last, retryable statuses at the last candidate included.
C2_ErrOnlyHeaderOrLastTransportFailure ==
    \A c \in Calls :
        (pc[c] = "done" /\ op[c] = "call_v1_internal")
            => /\ ~result[c].ok
                    => \/ /\ result[c].err.kind = "invalid header value"
                          /\ attempts[c] = <<>>
                       \/ /\ Len(snapshot[c]) > 0
                          /\ attempts[c] = snapshot[c]
                          /\ response[c] = TransportError
                          /\ result[c].err =
                                ErrorAt("request failed", snapshot[c][Len(snapshot[c])])
               /\ response[c].ok
                    => /\ result[c].ok
                       /\ result[c].status = response[c].status
                       /\ result[c].from = attempts[c][Len(attempts[c])]
               /\ result[c].ok => response[c].ok

\* One call ended in Err after a transport failure at the last endpoint,
\* another returned Ok carrying the 429 of the last candidate.
C2_Witness ==
    \E c, d \in Calls :
        /\ pc[c] = "done" /\ op[c] = "call_v1_internal"
        /\ ~result[c].ok /\ response[c] = TransportError
        /\ attempts[c] = snapshot[c] /\ Len(attempts[c]) = 2
        /\ pc[d] = "done" /\ op[d] = "call_v1_internal"
        /\ result[d].ok /\ result[d].status = 429
        /\ Len(attempts[d]) = 2
        /\ result[d].from = attempts[d][2]

(* ------------------------------------------------------------------ *)
(* C3                                                                  *)
(* ------------------------------------------------------------------ *)

\* C3: after the attempt at snapshot index i completed, the call advances
\* to index i+1 exactly when a further endpoint exists and the attempt
\* failed at transport level or answered 429, 408, 404 or 5xx; otherwise the
\* index stays, nothing more is sent, and for a non-2xx status the call
\* returns at that endpoint.
C3_AdvanceIffRetryableAndMoreEndpoints ==
    [][\A c \in Calls :
          (pc[c] = "match" /\ pc'[c] # "match")
              => LET r == response[c]
                     more == idx[c] + 1 < Len(snapshot[c])
                     retry == more /\ (~r.ok \/ IsRetryableStatus(r.status))
                 IN /\ (idx'[c] = idx[c] + 1 /\ pc'[c] = "send") <=> retry
                    /\ ~retry => /\ idx'[c] = idx[c]
                                 /\ attempts'[c] = attempts[c]
                                 /\ pc'[c] \in {"done", "promote", "json"}
                    /\ (~retry /\ ~(r.ok /\ Is2xx(r.status))) => pc'[c] = "done"
      ]_vars

\* One call stopped at index 0 on a 403 with a further endpoint left
\* untouched; another advanced to index 1 after a 429.
C3_Witness ==
    \E c, d \in Calls :
        /\ pc[c] = "done" /\ response[c] = HttpResponse(403)
        /\ idx[c] = 0 /\ Len(snapshot[c]) = 2 /\ Len(attempts[c]) = 1
        /\ pc[d] = "send" /\ response[d] = HttpResponse(429)
        /\ idx[d] = 1 /\ Len(attempts[d]) = 1

(* ------------------------------------------------------------------ *)
(* C4                                                                  *)
(* ------------------------------------------------------------------ *)

\* C4: the shared order changes only in a step of a call whose endpoint at
\* a snapshot index > 0 answered 2xx; every other step (non-retryable
\* errors, transport errors, success at index 0) leaves it as it is, and
\* promoting index 0, once or repeatedly, does not change the list.
C4_OrderChangesOnlyOnFallbackSuccess ==
    [][/\ endpoints' # endpoints
            => \E c \in Calls :
                  /\ pc[c] \in {"promote", "insert"}
                  /\ pc'[c] # pc[c]
                  /\ FallbackSucceeded(c)
       /\ promote_endpoint(endpoints, 0) = endpoints
       /\ promote_endpoint(promote_endpoint(endpoints', 0), 0) = endpoints'
      ]_vars

\* Calls have ended on a non-retryable error, on a transport error and on
\* a success at index 0, and the order is still the initial one.
C4_Witness ==
    \E c, d \in Calls :
        /\ endpoints = InitialEndpoints
        /\ pc[c] = "done" /\ response[c] = TransportError /\ Len(attempts[c]) = 2
        /\ pc[d] = "done" /\ idx[d] = 0 /\ response[d].ok
        /\ Is2xx(response[d].status)

(* ------------------------------------------------------------------ *)
(* C5                                                                  *)
(* ------------------------------------------------------------------ *)

\* C5: under any interleaving, right after a call's promotion step
\* completes, index 0 of the shared list holds the endpoint that answered
\* 2xx to that call.
C5_PromotionPutsTheSuccessfulEndpointFirst ==
    [][\A c \in Calls :
          (pc[c] = "insert" /\ pc'[c] # "insert")
              => At(endpoints', 0) = At(snapshot[c], idx[c])
      ]_vars

(* ------------------------------------------------------------------ *)
(* C6                                                                  *)
(* ------------------------------------------------------------------ *)

\* C6: a call takes its snapshot only when it starts; the endpoints it
\* attempts are always a prefix of that snapshot, each attempt going to the
\* snapshot element after the ones already tried, whatever other calls do
\* to the shared list meanwhile.
C6_AttemptsArePrefixOfSnapshot ==
    [][\A c \in Calls :
          /\ IsPrefix(attempts'[c], snapshot'[c])
          /\ snapshot'[c] # snapshot[c] => pc[c] \in {"idle", "done"}
          /\ (pc[c] = "send" /\ pc'[c] = "await")
                => attempts'[c] = Append(attempts[c], At(snapshot[c], Len(attempts[c])))
      ]_vars

\* A call went through its whole snapshot although another call had
\* reordered the shared list in the meantime.
C6_Witness ==
    \E c \in Calls :
        /\ interfered[c]
        /\ endpoints # snapshot[c]
        /\ Len(endpoints) = 2
        /\ attempts[c] = snapshot[c]
        /\ Len(attempts[c]) = 2

(* ------------------------------------------------------------------ *)
(* C7                                                                  *)
(* ------------------------------------------------------------------ *)

\* C7: within one call at most one attempt is in flight, no endpoint of
\* the snapshot is attempted twice, at most N attempts are made (N the
\* snapshot length), and the call is about to send only while an endpoint
\* of the snapshot is still untried.
C7_AttemptsSequentialAndBounded ==
    \A c \in Calls :
        /\ inflight[c] \in {0, 1}
        /\ inflight[c] = 1 <=> pc[c] = "await"
        /\ NoDuplicates(attempts[c])
        /\ Len(attempts[c]) <= Len(snapshot[c])
        /\ pc[c] = "send" => Len(attempts[c]) < Len(snapshot[c])
        /\ pc[c] = "send" => Len(attempts[c]) = idx[c]

\* A call has made N = 2 attempts, the second still in flight.
C7_Witness ==
    \E c \in Calls :
        /\ pc[c] = "await"
        /\ inflight[c] = 1
        /\ Len(snapshot[c]) = 2
        /\ Len(attempts[c]) = 2

(* ------------------------------------------------------------------ *)
(* Vocabulary of the auth properties                                   *)
(* ------------------------------------------------------------------ *)

StaticExtensions == {"css", "js", "png", "svg", "jpg", "jpeg", "webp", "ico"}

\* Paths the resolver lets through without a credential.
BypassedPath(path) ==
    \/ path \in { <<"/">>, <<"/", "index", ".", "html">>, <<"/", "favicon", ".", "ico">> }
    \/ StartsWith(path, <<"/", "assets", "/">>)
    \/ (Len(path) >= 2 /\ path[Len(path) - 1] = "." /\ path[Len(path)] \in StaticExtensions)
    \/ path = <<"/", "oauth-callback">>
    \/ StartsWith(path, <<"/", "api", "/", "oauth", "/">>)

Bypassed(req) == req.method = "OPTIONS" \/ BypassedPath(req.path)

\* The mode requires an identity on this path.
Enforcing(sec, path) ==
    \/ sec.auth_mode = "Enforced"
    \/ (sec.auth_mode = "AllExceptHealth" /\ path # <<"/", "healthz">>)

EnabledRecordsWith(db, key) == {id \in DOMAIN db : db[id].key = key /\ db[id].enabled}

RecordsWith(db, key) == {id \in DOMAIN db : db[id].key = key}

\* The step is one run of auth_middleware on the pending request.
Resolves == auth_pc = "received" /\ auth_pc' = "responded"

(* ------------------------------------------------------------------ *)
(* C8                                                                  *)
(* ------------------------------------------------------------------ *)

\* C8: in Enforced mode, and in AllExceptHealth mode off /healthz, a
\* request on a non-bypassed path reaches the downstream handler only with
\* an identity attached; with no candidate credential, or a candidate that
\* equals neither the secret of an enabled dynamic record nor the legacy
\* secret, the answer is 401 and the downstream handler does not run.
C8_EnforcedNeedsIdentity ==
    [][(Resolves /\ ~Bypassed(request) /\ Enforcing(security, request.path))
          => LET cand == extract_api_key(request)
             IN /\ auth_result' \in {"next", "UNAUTHORIZED"}
                /\ auth_result' = "next" => Len(extensions') > 0
                /\ (\/ Len(cand) = 0
                    \/ /\ EnabledRecordsWith(api_keys, cand[1]) = {}
                       /\ cand[1] # security.api_key)
                      => /\ auth_result' = "UNAUTHORIZED"
                         /\ extensions' = <<>>
      ]_vars

\* x-api-key names a disabled record, no legacy key is configured, the
\* mode is Enforced: the request to /v1/messages is answered 401.
C8_Witness ==
    /\ auth_pc = "responded"
    /\ security = [auth_mode |-> "Enforced", api_key |-> <<>>]
    /\ request.method = "POST"
    /\ request.path = <<"/", "v1", "/", "messages">>
    /\ request.authorization = NoHeader
    /\ request.x_api_key = TextHeader(<<"sk-dyn-2">>)
    /\ ~api_keys["key-2"].enabled
    /\ lookup = "Some"
    /\ extensions = <<>>
    /\ auth_result = "UNAUTHORIZED"

(* ------------------------------------------------------------------ *)
(* C9                                                                  *)
(* ------------------------------------------------------------------ *)

\* C9: no request gets more than one identity; when the candidate of a
\* request on a non-bypassed path equals the secret of an enabled dynamic
\* record, any identity attached carries that record's id and name and the
\* candidate as key (never "legacy", also when the legacy secret has the
\* same value), and exactly one is attached whenever the store answered.
C9_DynamicRecordIdentity ==
    [][Resolves
          => /\ Len(extensions') <= 1
             /\ LET cand == extract_api_key(request)
                IN (~Bypassed(request) /\ Len(cand) > 0
                        /\ EnabledRecordsWith(api_keys, cand[1]) # {})
                     => LET rec == api_keys[CHOOSE id \in EnabledRecordsWith(api_keys, cand[1]) : TRUE]
                        IN /\ \A i \in 1..Len(extensions') :
                                 extensions'[i] =
                                    [key |-> cand[1], key_id |-> rec.id, key_name |-> rec.name]
                           /\ lookup' # "Err" => Len(extensions') = 1
      ]_vars

\* The candidate is the secret of the enabled record key-1 and also the
\* legacy secret; the identity attached is key-1's.
C9_Witness ==
    /\ auth_pc = "responded"
    /\ security.api_key = <<"sk-dyn-1">>
    /\ extract_api_key(request) = << <<"sk-dyn-1">> >>
    /\ ~Bypassed(request)
    /\ lookup = "Some"
    /\ extensions = <<[key |-> <<"sk-dyn-1">>, key_id |-> "key-1", key_name |-> "first"]>>

(* ------------------------------------------------------------------ *)
(* C10                                                                 *)
(* ------------------------------------------------------------------ *)

\* C10: when the candidate of a request on a non-bypassed path is the
\* secret of no dynamic record and equals the legacy static secret, any
\* identity attached is {key: candidate, id: "legacy", name: "Legacy Config
\* Key"}, and exactly that one is attached whenever the store answered.
C10_LegacyIdentity ==
    [][Resolves
          => LET cand == extract_api_key(request)
             IN (~Bypassed(request) /\ Len(cand) > 0
                     /\ RecordsWith(api_keys, cand[1]) = {}
                     /\ cand[1] = security.api_key)
                  => /\ \A i \in 1..Len(extensions') :
                           extensions'[i] =
                              [key |-> cand[1], key_id |-> "legacy",
                               key_name |-> "Legacy Config Key"]
                     /\ Len(extensions') <= 1
                     /\ lookup' # "Err" => Len(extensions') = 1
      ]_vars

\* A Bearer sk-legacy request was given the legacy identity.
C10_Witness ==
    /\ auth_pc = "responded"
    /\ security.api_key = <<"sk-legacy">>
    /\ request.authorization = TextHeader(<<"Bearer ", "sk-legacy">>)
    /\ ~Bypassed(request)
    /\ lookup = "None"
    /\ extensions =
          <<[key |-> <<"sk-legacy">>, key_id |-> "legacy", key_name |-> "Legacy Config Key"]>>

(* ------------------------------------------------------------------ *)
(* C11                                                                 *)
(* ------------------------------------------------------------------ *)

\* The identity of the legacy tier for secret k.
LegacyIdentity(k) == [key |-> k, key_id |-> "legacy", key_name |-> "Legacy Config Key"]

\* C11: under Enforced mode, when the (non-empty) candidate of a request
\* on a non-bypassed path is the secret of a disabled dynamic record (and of
\* no enabled one) and also equals the legacy static secret, the legacy
\* identity is attached and the downstream handler runs.
C11_DisabledRecordFallsThroughToLegacy ==
    [][(Resolves /\ security.auth_mode = "Enforced")
          => LET cand == extract_api_key(request)
             IN (~Bypassed(request) /\ Len(cand) > 0 /\ lookup' = "Some"
                     /\ cand[1] # <<>>
                     /\ RecordsWith(api_keys, cand[1]) # {}
                     /\ EnabledRecordsWith(api_keys, cand[1]) = {}
                     /\ cand[1] = security.api_key)
                  => /\ extensions' = <<LegacyIdentity(cand[1])>>
                     /\ auth_result' = "next"
      ]_vars

(* ------------------------------------------------------------------ *)
(* C12                                                                 *)
(* ------------------------------------------------------------------ *)

\* C12: under Enforced mode, when the lookup in the dynamic store fails
\* with an error and the (non-empty) candidate of a request on a
\* non-bypassed path equals the legacy static secret, the legacy identity
\* is attached and the downstream handler runs instead of a 401 being
\* answered.
C12_LookupErrorDegradesToLegacy ==
    [][(Resolves /\ security.auth_mode = "Enforced")
          => LET cand == extract_api_key(request)
             IN (~Bypassed(request) /\ Len(cand) > 0 /\ lookup' = "Err"
                     /\ cand[1] # <<>>
                     /\ cand[1] = security.api_key)
                  => /\ extensions' = <<LegacyIdentity(cand[1])>>
                     /\ auth_result' = "next"
      ]_vars

(* ------------------------------------------------------------------ *)
(* C13                                                                 *)
(* ------------------------------------------------------------------ *)

\* The candidate resolves as the resolver's tiers resolve it: the store
\* answered, and the candidate is the secret of an enabled record, or of no
\* record at all while equal to the legacy secret.
ResolvesAgainstATier(db, sec, key, answered) ==
    /\ answered
    /\ \/ EnabledRecordsWith(db, key) # {}
       \/ (RecordsWith(db, key) = {} /\ key = sec.api_key)

C14_BypassedRequestsPassUntouched ==
    [][(Resolves /\ Bypassed(request))
          => /\ auth_result' = "next"
             /\ lookup' = "not called"
             /\ extensions' = <<>>
      ]_vars

\* Under Enforced mode a POST to /logo.svg carrying an unknown secret was
\* handed on without a lookup.
C14_Witness ==
    /\ auth_pc = "responded"
    /\ security.auth_mode = "Enforced"
    /\ request.method = "POST"
    /\ request.path = <<"/", "logo", ".", "svg">>
    /\ request.authorization = TextHeader(<<"sk-unknown">>)
    /\ lookup = "not called"
    /\ extensions = <<>>
    /\ auth_result = "next"

(* ------------------------------------------------------------------ *)
(* Vocabulary of the monitor properties                                *)
(* ------------------------------------------------------------------ *)

\* The request carries an identity and its URL is under /v1/, off the
\* event_logging sub-path.
Metered(req) ==
    /\ req.authenticated_key # <<>>
    /\ Len(req.uri) >= 3 /\ SubSeq(req.uri, 1, 3) = <<"/", "v1", "/">>
    /\ \A i \in 1..Len(req.uri) : req.uri[i] # "event_logging"

\* The handler has returned and no observing task is still running.
Finished == mon_pc = "responded" /\ obs_pc \in {"none", "done"}

\* The caller was handed the receiving end of the forwarding channel and
\* the observing task has not finished.
Observing == delivered.receiver /\ obs_pc # "done"

\* The observing task can take its next step: it is about to poll the
\* upstream body, or it has an item to send and the send can complete.
ObserverCanStep ==
    \/ obs_pc = "next"
    \/ (obs_pc = "send" /\ send_ready)

(* ------------------------------------------------------------------ *)
(* C15                                                                 *)
(* ------------------------------------------------------------------ *)

\* C15: for an SSE response, what the caller has read is always a prefix
\* of the items of the upstream body; while the caller is connected the
\* items read, those waiting in the channel and the one being sent are
\* together exactly the items taken from the upstream body so far, in
\* order; and when the stream has ended and the channel is drained the
\* caller has read exactly the upstream sequence, whatever the usage scan
\* of the tail window gave.
C15_SseChunksRelayedInOrder ==
    delivered.receiver
        => LET taken == SubSeq(downstream.stream, 1, stream_pos)
               in_hand == IF obs_pc = "send" THEN <<chunk>> ELSE <<>>
           IN /\ IsPrefix(caller_got, downstream.stream)
              /\ rx_open => caller_got \o channel \o in_hand = taken
              /\ (obs_pc = "done" /\ rx_open /\ channel = <<>>)
                    => caller_got = downstream.stream

\* A caller has read all three chunks of a stream whose tail window is
\* not valid UTF-8, so that no usage could be extracted.
C15_Witness ==
    /\ delivered.receiver /\ rx_open /\ obs_pc = "done" /\ channel = <<>>
    /\ Len(downstream.stream) = 3
    /\ downstream.stream[1] # downstream.stream[2]
    /\ downstream.stream[3] = Chunk(<<"\\xff">>)
    /\ caller_got = downstream.stream
    /\ Len(log_sink) = 1
    /\ log_sink[1].input_tokens = <<>> /\ log_sink[1].output_tokens = <<>>

(* ------------------------------------------------------------------ *)
(* C16                                                                 *)
(* ------------------------------------------------------------------ *)

\* C16: for an SSE response, a caller that reads slowly or has stopped
\* reading without disconnecting never stalls the observing task: whenever
\* the task has an item to forward it can forward it and go on reading the
\* upstream body.
C16_SlowCallerNeverStallsObserver ==
    (delivered.receiver /\ rx_open /\ obs_pc = "send") => ObserverCanStep

(* ------------------------------------------------------------------ *)
(* C17                                                                 *)
(* ------------------------------------------------------------------ *)

\* C17: record_usage is invoked at most once per request, only for a
\* request that carries an identity on a /v1/ URL without event_logging,
\* and then with that identity's credential value; once the handler has
\* returned and, for a relayed SSE response, the stream has ended, it has
\* been invoked exactly once for such a request, with the monitor enabled
\* or disabled and for every content type; while an SSE stream is still
\* being relayed it has not been invoked yet.
C17_UsageRecordedExactlyOnce ==
    /\ Len(usage_calls) <= 1
    /\ usage_calls # <<>>
          => /\ Metered(mon_request)
             /\ usage_calls[1].key = mon_request.authenticated_key[1].key
    /\ (Finished /\ Metered(mon_request)) => Len(usage_calls) = 1
    /\ Observing => usage_calls = <<>>

\* The stream of an SSE response to a metered request has ended after the
\* caller went away, and record_usage has been invoked once.
C17_Witness ==
    /\ monitor_enabled /\ delivered.receiver /\ obs_pc = "done" /\ ~rx_open
    /\ Metered(mon_request)
    /\ Len(downstream.stream) >= 2
    /\ Len(usage_calls) = 1
    /\ usage_calls[1].key = <<"sk-dyn-1">>

(* ------------------------------------------------------------------ *)
(* C18                                                                 *)
(* ------------------------------------------------------------------ *)

\* C18: the success flag and the token counts passed to record_usage with
\* the monitor enabled are those passed for the same request and the same
\* downstream response with the monitor disabled.
C18_MeteringSameEnabledOrDisabled ==
    (monitor_enabled /\ Finished /\ usage_calls # <<>>)
        => LET enabled == usage_calls[1]
               disabled == usage_when_disabled(enabled.key, downstream.status, enabled.ok)
           IN /\ enabled.success = disabled.success
              /\ enabled.input_tokens = disabled.input_tokens
              /\ enabled.output_tokens = disabled.output_tokens

(* ------------------------------------------------------------------ *)
(* C19                                                                 *)
(* ------------------------------------------------------------------ *)

\* C19: at most one log record is written per request, only with the
\* monitor enabled and a URL without event_logging, and it is the record
\* of this request; once the handler has returned and, for a relayed SSE
\* response, the stream has ended, exactly one has been written in that
\* case and none otherwise; while an SSE stream is being relayed none is
\* written yet, and once the caller has disconnected the observing task
\* can always take its next step towards the end of the stream.
C19_LogWrittenExactlyOnce ==
    LET expected == monitor_enabled
                        /\ \A i \in 1..Len(mon_request.uri) :
                               mon_request.uri[i] # "event_logging"
    IN /\ Len(log_sink) <= 1
       /\ log_sink # <<>>
             => /\ expected
                /\ log_sink[1].url = mon_request.uri
                /\ log_sink[1].method = mon_request.method
                /\ log_sink[1].status = downstream.status
       /\ Finished => (Len(log_sink) = 1 <=> expected)
       /\ Observing => log_sink = <<>>
       /\ (Observing /\ ~rx_open) => ObserverCanStep

\* The caller disconnected after one of three chunks; the observing task
\* went on to the end of the stream and wrote the record.
C19_Witness ==
    /\ delivered.receiver /\ ~rx_open /\ obs_pc = "done"
    /\ Len(downstream.stream) = 3
    /\ Len(caller_got) = 1
    /\ Len(log_sink) = 1
    /\ log_sink[1].response_body = <<"[Stream Data]">>

(* ------------------------------------------------------------------ *)
(* C20                                                                 *)
(* ------------------------------------------------------------------ *)

\* C20: the status and the body handed to the caller are those the
\* downstream handler produced, for every request and response, also when
\* the body is longer than the capture ceiling, is malformed JSON or is not
\* UTF-8, or when record_usage fails (for a relayed SSE response: the
\* status).
C20_CallerGetsDownstreamStatusAndBody ==
    mon_pc = "responded"
        => /\ delivered.status = downstream.status
           /\ ~delivered.receiver
                 => /\ delivered.body = downstream.body
                    /\ delivered.stream = downstream.stream

(* ------------------------------------------------------------------ *)
(* C21                                                                 *)
(* ------------------------------------------------------------------ *)

\* C21: with the monitor enabled, the body handed to the downstream handler
\* for a POST request is the body received from the caller, whatever its
\* size or encoding.
C21_RequestBodyForwardedUnchanged ==
    (monitor_enabled /\ mon_pc = "responded" /\ mon_request.method = "POST")
        => forwarded = <<mon_request.body>>

(* ------------------------------------------------------------------ *)
(* C25                                                                 *)
(* ------------------------------------------------------------------ *)

\* The bytes of the chunks among the first n items of the upstream body,
\* in order.
RECURSIVE ReceivedBytes(_)
ReceivedBytes(n) ==
    IF n = 0
    THEN <<>>
    ELSE LET item == downstream.stream[n]
         IN ReceivedBytes(n - 1) \o (IF item.ok THEN item.bytes ELSE <<>>)

\* The last n bytes of s (all of s when it is shorter).
LastBytes(s, n) ==
    IF Len(s) <= n THEN s ELSE SubSeq(s, Len(s) - n + 1, Len(s))

\* C25: while an SSE stream is observed, after every item taken from the
\* upstream body the tail window holds at most TailWindow bytes and is
\* exactly the last min(TailWindow, total) bytes of all chunks received so
\* far, whatever the sizes of the chunks.
C25_TailWindowIsSuffixOfReceived ==
    obs_pc \in {"next", "send", "done"}
        => /\ Len(last_few_bytes) <= TailWindow
           /\ last_few_bytes = LastBytes(ReceivedBytes(stream_pos), TailWindow)

\* A chunk longer than the window has just been received after an earlier
\* chunk, and more bytes were received than the window holds.
C25_Witness ==
    /\ obs_pc = "send" /\ stream_pos >= 2
    /\ chunk.ok /\ Len(chunk.bytes) > TailWindow
    /\ downstream.stream[1].ok
    /\ Len(ReceivedBytes(stream_pos)) > TailWindow
    /\ Len(last_few_bytes) = TailWindow

(* ------------------------------------------------------------------ *)
(* C26                                                                 *)
(* ------------------------------------------------------------------ *)

\* The usage object carried by a line of the window that is a `data: `
\* event payload with a usage field, <<>> for any other line.
UsageCarriedBy(line) ==
    IF Len(line) = 2 /\ line[1] = "data: "
    THEN LET json == serde_json_from_str(line[2])
         IN IF json.ok THEN json.usage ELSE <<>>
    ELSE <<>>

\* The lines of the window that carry a usage object, by position.
QualifyingLines(window) ==
    {k \in 1..Len(lines(window)) : UsageCarriedBy(lines(window)[k]) # <<>>}

\* The counts of the latest qualifying line, none when no line qualifies.
CountsOfLatestLine(window) ==
    IF QualifyingLines(window) = {}
    THEN NoTokens
    ELSE LET latest == CHOOSE k \in QualifyingLines(window) :
                           \A j \in QualifyingLines(window) : j <= k
         IN usage_tokens(UsageCarriedBy(lines(window)[latest])[1])

\* C26: when an SSE stream has ended, the token counts of the log record
\* are those of the latest line of the tail window that is a `data: `
\* event payload carrying a usage field, and both are unset when no line
\* of the window is one.
C26_CountsComeFromLatestUsageLine ==
    obs_pc = "done"
        => /\ Len(log_sink) = 1
           /\ [input |-> log_sink[1].input_tokens,
               output |-> log_sink[1].output_tokens]
                 = CountsOfLatestLine(last_few_bytes)

(* ------------------------------------------------------------------ *)
(* C27                                                                 *)
(* ------------------------------------------------------------------ *)

\* The integer value of a member as its two halves, none when the member
\* is absent or not a non-negative integer.
ValueOf(member) ==
    IF member.present /\ member.u64 THEN << <<member.hi, member.lo>> >> ELSE <<>>

\* The value of a logged count as two halves.
LoggedValue(count) ==
    IF count = <<>> THEN <<>> ELSE << <<0, count[1]>> >>

\* The counts the key-variant fallback selects from a usage object, at
\* their upstream values.
UpstreamCounts(usage) ==
    LET input == ValueOf(or_member(usage.prompt_tokens, usage.input_tokens))
        output == ValueOf(or_member(usage.completion_tokens, usage.output_tokens))
    IN [input |-> input,
        output |-> IF input = <<>> /\ output = <<>>
                   THEN ValueOf(usage.total_tokens)
                   ELSE output]

\* The usage object the handler found for the request, if any: in the
\* buffered body, or in the line of the tail window its scan stopped at.
UsageFound ==
    IF delivered.receiver
    THEN IF is_utf8(last_few_bytes) /\ QualifyingLines(last_few_bytes) # {}
         THEN LET latest == CHOOSE k \in QualifyingLines(last_few_bytes) :
                                \A j \in QualifyingLines(last_few_bytes) : j <= k
              IN UsageCarriedBy(lines(last_few_bytes)[latest])
         ELSE <<>>
    ELSE IF /\ contains_json_or_text(downstream.content_type)
            /\ downstream.body.len <= RESPONSE_BODY_LIMIT
            /\ downstream.body.utf8
            /\ serde_json_from_str(downstream.body.text).ok
         THEN serde_json_from_str(downstream.body.text).usage
         ELSE <<>>

\* C27: for a usage object found in a buffered JSON body or in an SSE
\* event, the counts of the log record are the upstream integers selected
\* by the key-variant fallback (prompt or else input, completion or else
\* output, total as output only when neither was obtained), at their full
\* value.
C27_LoggedCountsEqualUpstreamIntegers ==
    (Finished /\ Len(log_sink) = 1 /\ UsageFound # <<>>)
        => /\ LoggedValue(log_sink[1].input_tokens) = UpstreamCounts(UsageFound[1]).input
           /\ LoggedValue(log_sink[1].output_tokens) = UpstreamCounts(UsageFound[1]).output

(* ------------------------------------------------------------------ *)
(* C28                                                                 *)
(* ------------------------------------------------------------------ *)

\* s holds every configured endpoint exactly once.
IsPermutationOfInitial(s) ==
    /\ Len(s) = Len(InitialEndpoints)
    /\ {s[i] : i \in 1..Len(s)} = {InitialEndpoints[i] : i \in 1..Len(InitialEndpoints)}

\* C28: under any interleaving of concurrent calls of both operations, the
\* shared endpoint list is a permutation of the configured list whenever
\* the write lock is free, every clone a call has taken of it is one, and
\* while a promotion holds the write lock the list and the removed element
\* together are one: no endpoint is dropped, duplicated or added, and no
\* reader sees the list between the removal and the reinsertion.
C28_EndpointsArePermutationOfInitial ==
    /\ writer = 0 => IsPermutationOfInitial(endpoints)
    /\ \A c \in Calls : snapshot[c] # <<>> => IsPermutationOfInitial(snapshot[c])
    /\ writer # 0
          => /\ pc[writer] = "insert"
             /\ IsPermutationOfInitial(<<endpoint[writer]>> \o endpoints)

\* Two calls ran at the same time, one promoted while the other was
\* iterating, and both have returned with the order changed.
C28_Witness ==
    /\ writer = 0
    /\ endpoints = <<V1_INTERNAL_BASE_URL_PROD, V1_INTERNAL_BASE_URL_DAILY>>
    /\ \A c \in Calls : pc[c] = "done" /\ snapshot[c] # <<>>
    /\ \E c \in Calls : interfered[c]
    /\ \E c \in Calls : op[c] = "fetch_available_models"
    /\ \E c \in Calls : op[c] = "call_v1_internal"

(* ------------------------------------------------------------------ *)
(* C29                                                                 *)
(* ------------------------------------------------------------------ *)

\* C29: when fetch_available_models returns Err (and no other call
\* promoted in the meantime), the shared endpoint order is the order the
\* call cloned when it started.
C29_FetchErrLeavesOrderUnchanged ==
    [][\A c \in Calls :
          ( /\ pc[c] # "done" /\ pc'[c] = "done"
            /\ op'[c] = "fetch_available_models"
            /\ result'[c].set /\ ~result'[c].ok
            /\ snapshot'[c] # <<>>
            /\ ~interfered'[c] )
              => endpoints' = snapshot'[c]]_vars

(* ------------------------------------------------------------------ *)
(* C30                                                                 *)
(* ------------------------------------------------------------------ *)

\* C30: in Enforced mode, a request with a method other than OPTIONS and a
\* path under /v1/ reaches the downstream handler only with an identity
\* attached, whatever follows the last '.' of the path.
C30_NoV1RequestWithoutIdentity ==
    ( /\ auth_pc = "responded"
      /\ security.auth_mode = "Enforced"
      /\ request.method # "OPTIONS"
      /\ StartsWith(request.path, <<"/", "v1", "/">>)
      /\ auth_result = "next" )
        => Len(extensions) > 0

(* ------------------------------------------------------------------ *)
(* Vocabulary of the session gate properties                           *)
(* ------------------------------------------------------------------ *)

WebStaticExtensions ==
    {"css", "js", "png", "svg", "jpg", "jpeg", "webp", "ico", "woff", "woff2", "ttf"}

\* A static asset of the web application: never an HTML page.
StaticWebAsset(path) ==
    /\ ~(Len(path) >= 2 /\ path[Len(path) - 1] = "." /\ path[Len(path)] = "html")
    /\ \/ path = <<"/", "favicon", ".", "ico">>
       \/ StartsWith(path, <<"/", "assets", "/">>)
       \/ (Len(path) >= 2 /\ path[Len(path) - 1] = "."
              /\ path[Len(path)] \in WebStaticExtensions)

\* The path requires a session: an administrative API path other than the
\* authentication and OAuth sub-paths, or any other path that is not a
\* static asset, a login page, the OAuth callback page, the health check or
\* a protocol path.
SessionProtected(path) ==
    IF StartsWith(path, <<"/", "api", "/">>)
    THEN ~StartsWith(path, <<"/", "api", "/", "auth", "/">>)
            /\ ~StartsWith(path, <<"/", "api", "/", "oauth", "/">>)
    ELSE /\ ~StaticWebAsset(path)
         /\ path \notin { <<"/", "login", ".", "html">>, <<"/", "login">>,
                          <<"/", "oauth-callback">>, <<"/", "healthz">> }
         /\ ~StartsWith(path, <<"/", "v1", "/">>)
         /\ ~StartsWith(path, <<"/", "v1beta", "/">>)

\* The request carries no session cookie, or validate_session answered
\* false for its token.
Unauthenticated ==
    \/ extract_session_token(web_request) = <<>>
    \/ (validate_calls # <<>> /\ ~validate_calls[Len(validate_calls)])

(* ------------------------------------------------------------------ *)
(* C22                                                                 *)
(* ------------------------------------------------------------------ *)

\* C22: for a request to a session-protected path with no session cookie
\* or with a token that fails validation, the protected handler does not
\* run and refresh_session is not invoked; the answer is 401 with the JSON
\* body {"error": "Authentication required"} when the path starts with
\* /api/, and a redirect to /login.html for every other protected path;
\* /login.html itself is let through without consulting the session store.
C22_UnauthenticatedIsRejected ==
    /\ (web_pc = "responded" /\ SessionProtected(web_request.path) /\ Unauthenticated)
          => /\ web_response.kind # "next"
             /\ refresh_calls = <<>>
             /\ web_response =
                   IF StartsWith(web_request.path, <<"/", "api", "/">>)
                   THEN Unauthorized
                   ELSE RedirectToLogin
    /\ (web_pc \in {"received", "validate"}) => web_response = NoWebResponse
    /\ (web_pc = "responded" /\ web_request.path = <<"/", "login", ".", "html">>)
          => /\ web_response = HandlerResponse
             /\ validate_calls = <<>>
             /\ refresh_calls = <<>>

\* The cookie names a session that has lapsed: validate_session answered
\* false and the request to /api/keys got the 401 JSON answer.
C22_Witness ==
    /\ web_pc = "responded"
    /\ web_request.path = <<"/", "api", "/", "keys">>
    /\ session_token = <<"s1">>
    /\ sessions["s1"].present /\ now >= sessions["s1"].expiry
    /\ validate_calls = <<FALSE>>
    /\ refresh_calls = <<>>
    /\ web_response = Unauthorized

(* ------------------------------------------------------------------ *)
(* C23                                                                 *)
(* ------------------------------------------------------------------ *)

\* C23: for a request to a session-protected path, refresh_session is
\* invoked on the token if and only if validate_session answered true for
\* it in the same request; the protected handler starts only after the
\* refresh has completed, and it does run then; for an unprotected path
\* the session store is neither validated against nor refreshed and the
\* handler runs.
C23_RefreshIffValidated ==
    /\ Len(validate_calls) <= 1 /\ Len(refresh_calls) <= 1
    /\ refresh_calls # <<>>
          => /\ validate_calls = <<TRUE>>
             /\ refresh_calls = session_token
    /\ (web_pc = "responded" /\ validate_calls = <<TRUE>>)
          => /\ refresh_calls = session_token
             /\ web_response = HandlerResponse
    /\ web_pc = "refresh"
          => /\ validate_calls = <<TRUE>>
             /\ refresh_calls = <<>>
             /\ web_response = NoWebResponse
    /\ (SessionProtected(web_request.path) /\ web_response.kind = "next")
          => refresh_calls # <<>>
    /\ (web_pc # "idle" /\ ~SessionProtected(web_request.path))
          => /\ validate_calls = <<>>
             /\ refresh_calls = <<>>
             /\ web_pc = "responded" => web_response = HandlerResponse

\* A request to / with the cookie of a live session, some time after the
\* login: validated, refreshed to a full lifetime from now, handler run.
C23_Witness ==
    /\ web_pc = "responded"
    /\ web_request.path = <<"/">>
    /\ session_token = <<"s1">>
    /\ validate_calls = <<TRUE>>
    /\ refresh_calls = <<"s1">>
    /\ now > 0
    /\ sessions["s1"] = Session(now + SessionTtl)
    /\ web_response = HandlerResponse

(* ------------------------------------------------------------------ *)
(* C24                                                                 *)
(* ------------------------------------------------------------------ *)

\* C24: under any interleaving with expiry, logout and other requests on
\* the same token, whenever the protected handler starts for a request
\* that presented a session, that session is valid and its expiry has
\* been extended to a full lifetime from now.
C24_HandlerStartsWithValidExtendedSession ==
    [][(web_pc = "refresh" /\ web_pc' = "responded")
          => /\ validate_session(sessions', session_token[1], now')
             /\ sessions'[session_token[1]].expiry = now' + SessionTtl]_vars

====
